---------------------------- MODULE Spec2Model ----------------------------
(***************************************************************************)
(* A model of the rag-pipeline ingestion-to-retrieval core: the in-memory  *)
(* vector store (lib/vectorstore), the chunker (lib/chunk.ts) and the HTTP *)
(* handlers that drive them (api/upload, api/search, api/files).           *)
(*                                                                         *)
(* JavaScript values are represented as follows.                           *)
(*   - A Map is a sequence of its values in insertion order; the key of a  *)
(*     value is its id field (Map.set on a present key replaces the value  *)
(*     in place, on an absent key appends).                                *)
(*   - An optional field (type?, collection?, tags?, version?) is <<>>     *)
(*     when undefined and <<v>> when it holds v.                           *)
(*   - null is the record Null.                                            *)
(*   - A similarity score dot / (sqrt(na) * sqrt(nb) + 1e-8) is kept as    *)
(*     the exact pair [num |-> dot, den |-> sqrt(na) * sqrt(nb)]; vectors  *)
(*     are drawn from integer vectors with integer norms, so den is an     *)
(*     integer, and scores are compared exactly (ScoreLess).               *)
(***************************************************************************)
EXTENDS Integers, Sequences, FiniteSets, TLC

VARIABLES
    docs,      \* store.docs: the Doc records, in Map insertion order
    chunks,    \* store.chunks: the chunk records, in Map insertion order
    now,       \* the value Date.now() returns
    nOps,      \* number of store mutations done so far (bounds the runs)
    call,      \* what the last step ran: [op, arg, ret] of a call it completed
    reqs,      \* the POST /api/upload requests: where each one is, its locals
    mongoEnabled,  \* isMongoEnabled, read from the environment at load time
    mirrorDocs,    \* the mirror's "docs" collection
    mirrorChunks,  \* the mirror's "chunks" collection
    chat           \* the POST /api/chat request: where it is, its locals

mirrorVars == <<mongoEnabled, mirrorDocs, mirrorChunks>>
appVars == <<reqs, mongoEnabled, mirrorDocs, mirrorChunks, chat>>
vars == <<docs, chunks, now, nOps, call, reqs, mongoEnabled, mirrorDocs,
          mirrorChunks, chat>>

----------------------------------------------------------------------------
(* Bounds of the model.                                                    *)

MaxOps == 3
MaxNow == 1
MaxDeltas == 3

(* Program constants.                                                      *)

DefaultK == 8

----------------------------------------------------------------------------
(* JavaScript values.                                                      *)

None == <<>>
Some(v) == <<v>>
OrElse(opt, d) == IF opt = None THEN d ELSE opt[1]
Null == [null |-> TRUE]

Min(a, b) == IF a <= b THEN a ELSE b
Max(a, b) == IF a >= b THEN a ELSE b

(* Map.has / Map.get / Map.set on a Map kept as a sequence of values keyed *)
(* by their id field.                                                      *)
MapHas(m, key) == \E i \in 1..Len(m) : m[i].id = key
MapGet(m, key) == m[CHOOSE i \in 1..Len(m) : m[i].id = key]
MapSet(m, val) ==
    IF MapHas(m, val.id)
    THEN [i \in 1..Len(m) |-> IF m[i].id = val.id THEN val ELSE m[i]]
    ELSE Append(m, val)

(* Array.prototype.slice(0, k) for an integer k: a negative k counts from  *)
(* the end of the array.                                                   *)
Slice0(s, k) ==
    LET end == IF k < 0 THEN Max(Len(s) + k, 0) ELSE Min(k, Len(s))
    IN  SubSeq(s, 1, end)

----------------------------------------------------------------------------
(* Input domains.                                                          *)

DocIds == {"d1", "d2"}
NoSuchId == "d9"

(* The metadata a caller passes: either every optional field left out, or  *)
(* every one given.                                                        *)
Metas ==
    { [title |-> "Guide", type |-> None, collection |-> None,
       tags |-> None, version |-> None],
      [title |-> "Notes", type |-> Some("pdf"), collection |-> Some("kb"),
       tags |-> Some(<<"t">>), version |-> Some("v2.0")] }

(* Chunk contents: a text with the vector the caller attaches to it, and   *)
(* the content lists a caller passes (none, one chunk, two chunks).        *)
Alpha == [text |-> "alpha", embedding |-> <<1, 0>>]
Beta == [text |-> "beta", embedding |-> <<3, 4>>]
ContentLists == { <<>>, <<Alpha>>, <<Beta, Alpha>> }

ReqIds == {1, 2}

Queries == { <<1, 0>>, <<0, 0>> }
Ks == {-1, 0, 1, DefaultK}

(* `${id}_chunk_${i}`                                                      *)
ChunkId(id, i) == id \o "_chunk_" \o ToString(i)

(* The chunk arrays of a document id: ids derived from the document id as  *)
(* the upload handler derives them.                                        *)
ChunkArrays(id) ==
    { [i \in 1..Len(cl) |-> [id |-> ChunkId(id, i - 1), text |-> cl[i].text,
                             embedding |-> cl[i].embedding]]
      : cl \in ContentLists }

DocInputs ==
    UNION { { [id |-> id, title |-> m.title, type |-> m.type,
               collection |-> m.collection, tags |-> m.tags, text |-> "body",
               chunks |-> cs, version |-> m.version]
              : m \in Metas, cs \in ChunkArrays(id) }
            : id \in DocIds }

----------------------------------------------------------------------------
(* lib/vectorstore                                                         *)

Init ==
    /\ docs = <<>>
    /\ chunks = <<>>
    /\ now = 0
    /\ nOps = 0
    /\ call = [op |-> "none"]
    /\ reqs = [r \in ReqIds |-> [pc |-> "idle"]]
    /\ mongoEnabled = FALSE
    /\ mirrorDocs = <<>>
    /\ mirrorChunks = <<>>
    /\ chat = [pc |-> "idle"]

(* const payload: Doc = { ...doc, createdAt: Date.now() }                  *)
UpsertPayload(doc, t) ==
    [id |-> doc.id, title |-> doc.title, type |-> doc.type,
     collection |-> doc.collection, tags |-> doc.tags, text |-> doc.text,
     chunks |-> doc.chunks, version |-> doc.version, createdAt |-> t]

(* A plausible bug: an id that is already stored keeps its old record.    *)
UpsertDocsIfAbsent(ds, payload) ==
    IF MapHas(ds, payload.id) THEN ds ELSE Append(ds, payload)

(* store.docs.set(payload.id, payload)                                     *)
UpsertDocs(ds, payload) == MapSet(ds, payload)

(* for (const c of payload.chunks) store.chunks.set(c.id, {...})           *)
RECURSIVE SetAll(_, _, _)
SetAll(cm, payload, i) ==
    IF i > Len(payload.chunks) THEN cm
    ELSE LET c == payload.chunks[i]
         IN  SetAll(MapSet(cm, [docId |-> payload.id, id |-> c.id,
                                text |-> c.text, embedding |-> c.embedding]),
                    payload, i + 1)

(* A plausible bug: the loop stops short of the last chunk.                *)
UpsertChunksButLast(cm, payload) ==
    SetAll(cm, [payload EXCEPT !.chunks =
                   SubSeq(payload.chunks, 1, Len(payload.chunks) - 1)], 1)

(* A plausible bug: the chunks the document had are dropped first.         *)
NotOf(id, cm) == SelectSeq(cm, LAMBDA c : c.docId # id)
UpsertChunksEvicting(cm, payload) == SetAll(NotOf(payload.id, cm), payload, 1)

UpsertChunks(cm, payload) == SetAll(cm, payload, 1)

UpsertDocument(doc) ==
    /\ nOps < MaxOps
    /\ LET payload == UpsertPayload(doc, now)
       IN  /\ docs' = UpsertDocs(docs, payload)
           /\ chunks' = UpsertChunks(chunks, payload)
           /\ call' = [op |-> "upsertDocument", arg |-> doc, ret |-> payload,
                       at |-> now]
    /\ nOps' = nOps + 1
    /\ UNCHANGED <<now, appVars>>

(* A plausible bug: only the document map is cleared.                      *)
ResetStoreDocsOnly ==
    /\ nOps < MaxOps
    /\ docs' = <<>>
    /\ chunks' = chunks
    /\ call' = [op |-> "resetStore"]
    /\ nOps' = nOps + 1
    /\ UNCHANGED <<now, appVars>>

ResetStore ==
    /\ nOps < MaxOps
    /\ docs' = <<>>
    /\ chunks' = <<>>
    /\ call' = [op |-> "resetStore"]
    /\ nOps' = nOps + 1
    /\ UNCHANGED <<now, appVars>>

(* Time passes between calls.                                              *)
Tick ==
    /\ now < MaxNow
    /\ now' = now + 1
    /\ UNCHANGED <<docs, chunks, nOps, call, appVars>>


----------------------------------------------------------------------------
(* cosineSim and search                                                    *)

(* Math.sqrt on the perfect squares the vectors of the model produce.      *)
Sqrt(n) == CHOOSE r \in 0..n : r * r = n

RECURSIVE SumTo(_, _)
SumTo(f, n) == IF n = 0 THEN 0 ELSE f[n] + SumTo(f, n - 1)

(* for (let i = 0; i < a.length; i++) { dot += ..; na += ..; nb += .. }    *)
(* return dot / (Math.sqrt(na) * Math.sqrt(nb) + 1e-8), kept as the pair   *)
(* of dot and sqrt(na) * sqrt(nb).                                         *)
CosineSim(a, b) ==
    LET dot == SumTo([i \in 1..Len(a) |-> a[i] * b[i]], Len(a))
        na == SumTo([i \in 1..Len(a) |-> a[i] * a[i]], Len(a))
        nb == SumTo([i \in 1..Len(a) |-> b[i] * b[i]], Len(a))
    IN  [num |-> dot, den |-> Sqrt(na) * Sqrt(nb)]

(* x < y for the numbers x.num / (x.den + e) and y.num / (y.den + e),      *)
(* e = 1e-8: the sign of x.num * y.den - y.num * x.den + e * (x.num -      *)
(* y.num), whose first part is an integer and whose second is below 1.     *)
ScoreLess(x, y) ==
    LET c == x.num * y.den - y.num * x.den
    IN  c < 0 \/ (c = 0 /\ x.num < y.num)

(* A plausible bug: the comparator a.score - b.score.                      *)
ComesAfterAscending(a, b) == ScoreLess(b.score, a.score)

(* The comparator (a, b) => b.score - a.score is positive, i.e. a is to    *)
(* come after b, exactly when a.score < b.score.                           *)
ComesAfter(a, b) == ScoreLess(a.score, b.score)

(* A plausible bug: a sort that is not stable, equal scores swapped.       *)
RECURSIVE InsertBeforeEquals(_, _)
InsertBeforeEquals(sorted, x) ==
    IF sorted = <<>> THEN <<x>>
    ELSE IF ~ScoreLess(x.score, sorted[Len(sorted)].score)
         THEN Append(InsertBeforeEquals(SubSeq(sorted, 1, Len(sorted) - 1), x),
                     sorted[Len(sorted)])
         ELSE Append(sorted, x)

(* Array.prototype.sort with that comparator: a stable sort. Insert puts   *)
(* x behind every element it does not have to precede.                     *)
RECURSIVE Insert(_, _)
Insert(sorted, x) ==
    IF sorted = <<>> THEN <<x>>
    ELSE IF ComesAfter(sorted[Len(sorted)], x)
         THEN Append(Insert(SubSeq(sorted, 1, Len(sorted) - 1), x),
                     sorted[Len(sorted)])
         ELSE Append(sorted, x)

RECURSIVE SortByScore(_)
SortByScore(s) ==
    IF s = <<>> THEN <<>>
    ELSE Insert(SortByScore(SubSeq(s, 1, Len(s) - 1)), s[Len(s)])

(* A plausible bug: the tags and the collection are not copied.            *)
ResultOfBare(doc, chunk, score, idx) ==
    [docId |-> doc.id, chunkId |-> chunk.id, title |-> doc.title,
     type |-> doc.type, collection |-> None, tags |-> None,
     text |-> chunk.text, score |-> score, index |-> idx]

(* scored.push({ docId: doc.id, chunkId: chunk.id, title: doc.title, ... }) *)
ResultOf(doc, chunk, score, idx) ==
    [docId |-> doc.id, chunkId |-> chunk.id, title |-> doc.title,
     type |-> doc.type, collection |-> doc.collection, tags |-> doc.tags,
     text |-> chunk.text, score |-> score, index |-> idx]

(* The loop over store.chunks.values(): one result per chunk whose         *)
(* document exists, idx counting the results pushed so far.                *)
RECURSIVE Scored(_, _, _, _, _)
Scored(ds, cm, embedding, i, acc) ==
    IF i > Len(cm) THEN acc
    ELSE LET chunk == cm[i]
             score == CosineSim(embedding, chunk.embedding)
         IN  IF ~MapHas(ds, chunk.docId)
             THEN Scored(ds, cm, embedding, i + 1, acc)
             ELSE Scored(ds, cm, embedding, i + 1,
                         Append(acc, ResultOf(MapGet(ds, chunk.docId), chunk,
                                              score, Len(acc))))

(* scored.sort((a, b) => b.score - a.score); return scored.slice(0, k)     *)
SearchResult(ds, cm, embedding, k) ==
    Slice0(SortByScore(Scored(ds, cm, embedding, 1, <<>>)), k)

Search(embedding, k) ==
    /\ call' = [op |-> "search", arg |-> [embedding |-> embedding, k |-> k],
                ret |-> SearchResult(docs, chunks, embedding, k)]
    /\ UNCHANGED <<docs, chunks, now, nOps, appVars>>

----------------------------------------------------------------------------
(* listDocuments, getDocument, stats                                       *)

ListDocumentsResult(ds) ==
    [i \in 1..Len(ds) |->
        [id |-> ds[i].id, title |-> ds[i].title, name |-> ds[i].title,
         type |-> OrElse(ds[i].type, "unknown"),
         collection |-> OrElse(ds[i].collection, "uncategorized"),
         tags |-> OrElse(ds[i].tags, <<>>),
         size |-> Len(ds[i].text),
         chunks |-> Len(ds[i].chunks),
         createdAt |-> ds[i].createdAt,
         version |-> OrElse(ds[i].version, "v1.0")]]

(* store.docs.get(docId) ?? null                                           *)
GetDocumentResult(ds, docId) ==
    IF MapHas(ds, docId) THEN MapGet(ds, docId) ELSE Null

CollectionOf(d) == OrElse(d.collection, "uncategorized")
TypeOf(d) == OrElse(d.type, "unknown")

EmptyRecord == [x \in {} |-> 0]

(* A plausible bug: the count is set, not added to.                        *)
RECURSIVE CountByOnce(_, _, _)
CountByOnce(labels, i, acc) ==
    IF i > Len(labels) THEN acc
    ELSE CountByOnce(labels, i + 1,
                     [x \in DOMAIN acc \cup {labels[i]} |->
                         IF x = labels[i] THEN 1 ELSE acc[x]])

(* byCollection[col] = (byCollection[col] ?? 0) + 1 over the documents'    *)
(* labels: a Record<string, number> whose keys are the labels met.         *)
RECURSIVE CountBy(_, _, _)
CountBy(labels, i, acc) ==
    IF i > Len(labels) THEN acc
    ELSE LET key == labels[i]
             prev == IF key \in DOMAIN acc THEN acc[key] ELSE 0
         IN  CountBy(labels, i + 1,
                     [x \in DOMAIN acc \cup {key} |->
                         IF x = key THEN prev + 1 ELSE acc[x]])

(* A plausible bug: totalChunks is taken from the document map.            *)
StatsResultDocsAsChunks(ds, cm) ==
    [totalDocs |-> Len(ds), totalChunks |-> Len(ds),
     byCollection |-> CountBy([i \in 1..Len(ds) |-> CollectionOf(ds[i])], 1,
                              EmptyRecord),
     byType |-> CountBy([i \in 1..Len(ds) |-> TypeOf(ds[i])], 1, EmptyRecord)]

StatsResult(ds, cm) ==
    [totalDocs |-> Len(ds), totalChunks |-> Len(cm),
     byCollection |-> CountBy([i \in 1..Len(ds) |-> CollectionOf(ds[i])], 1,
                              EmptyRecord),
     byType |-> CountBy([i \in 1..Len(ds) |-> TypeOf(ds[i])], 1, EmptyRecord)]

Stats ==
    /\ call' = [op |-> "stats", ret |-> StatsResult(docs, chunks),
                list |-> ListDocumentsResult(docs)]
    /\ UNCHANGED <<docs, chunks, now, nOps, appVars>>

----------------------------------------------------------------------------
(* getStats. The clock counts milliseconds. collectionsMap is a Map keyed  *)
(* by the collection name, kept like the others as the sequence of its     *)
(* entries [id |-> name, count, latest] in insertion order.                *)

(* ingestion: { status: ... }, an em dash, written "--" here.              *)
Placeholder == "--"

TwoMinutes == 2 * 60 * 1000
SixtyMinutes == 60 * 60 * 1000

(* d.createdAt || 0                                                        *)
OrZero(n) == IF n = 0 THEN 0 ELSE n

(* A plausible bug: Math.min where Math.max is meant.                      *)
EarlierOf(a, b) == Min(a, b)

(* Math.max(prev.latest, d.createdAt || 0)                                 *)
LaterOf(a, b) == Max(a, b)

(* Lines 96-102, the loop over store.docs.values().                        *)
RECURSIVE Aggregate(_, _, _)
Aggregate(ds, i, acc) ==
    IF i > Len(ds) THEN acc
    ELSE LET col == CollectionOf(ds[i])
             prev == IF MapHas(acc, col) THEN MapGet(acc, col)
                     ELSE [id |-> col, count |-> 0, latest |-> 0]
             latest == LaterOf(prev.latest, OrZero(ds[i].createdAt))
         IN  Aggregate(ds, i + 1,
                       MapSet(acc, [id |-> col, count |-> prev.count + 1,
                                    latest |-> latest]))

RECURSIVE LatestGlobal(_, _, _)
LatestGlobal(ds, i, acc) ==
    IF i > Len(ds) THEN acc
    ELSE LatestGlobal(ds, i + 1, LaterOf(acc, OrZero(ds[i].createdAt)))

(* A plausible bug: the thresholds are taken inclusive.                    *)
AgeToStatusInclusive(ageMs) ==
    IF ageMs <= TwoMinutes THEN "Up-to-date"
    ELSE IF ageMs <= SixtyMinutes THEN "Refreshing"
    ELSE "Stale"

AgeToStatus(ageMs) ==
    IF ageMs < TwoMinutes THEN "Up-to-date"
    ELSE IF ageMs < SixtyMinutes THEN "Refreshing"
    ELSE "Stale"

ColorFor(status) ==
    IF status = "Up-to-date" THEN "bg-emerald-500"
    ELSE IF status = "Refreshing" THEN "bg-amber-500"
    ELSE "bg-rose-500"

(* .sort((a, b) => b[1].latest - a[1].latest): a stable sort, the entry    *)
(* with the later latest first.                                            *)
RECURSIVE InsertByLatest(_, _)
InsertByLatest(sorted, x) ==
    IF sorted = <<>> THEN <<x>>
    ELSE IF Head(sorted).latest < x.latest THEN <<x>> \o sorted
    ELSE <<Head(sorted)>> \o InsertByLatest(Tail(sorted), x)

(* A plausible bug: the entries are left in the order of the map.          *)
InMapOrder(s) == s

RECURSIVE SortByLatest(_)
SortByLatest(s) ==
    IF s = <<>> THEN <<>>
    ELSE InsertByLatest(SortByLatest(SubSeq(s, 1, Len(s) - 1)), s[Len(s)])

(* `v${1 + Math.floor(info.count / 5)}.${info.count % 10}`                 *)
VerOf(count) ==
    "v" \o ToString(1 + (count \div 5)) \o "." \o ToString(count % 10)

DatasetCard(info, t) ==
    LET st == AgeToStatus(Max(0, t - info.latest))
    IN  [name |-> info.id, ver |-> VerOf(info.count), status |-> st,
         color |-> ColorFor(st)]

(* A plausible bug: the "No data yet" return is left out.                  *)
GetStatsNoGuard(ds, t) ==
    LET collectionsMap == Aggregate(ds, 1, <<>>)
        latestGlobal == LatestGlobal(ds, 1, 0)
        sorted == SortByLatest(collectionsMap)
    IN  [sourcesCount |-> Len(ds),
         collections |-> [i \in 1..Len(collectionsMap) |->
                             collectionsMap[i].id],
         ingestion |-> [status |-> AgeToStatus(Max(0, t - latestGlobal)),
                        updatedAt |-> latestGlobal],
         datasets |-> [i \in 1..Len(sorted) |-> DatasetCard(sorted[i], t)]]

(* getStats() when Date.now() returns t.                                   *)
GetStatsResult(ds, t) ==
    IF Len(ds) = 0
    THEN [sourcesCount |-> 0, collections |-> <<>>,
          ingestion |-> [status |-> Placeholder], datasets |-> <<>>]
    ELSE LET collectionsMap == Aggregate(ds, 1, <<>>)
             latestGlobal == LatestGlobal(ds, 1, 0)
             sorted == SortByLatest(collectionsMap)
         IN  [sourcesCount |-> Len(ds),
              collections |-> [i \in 1..Len(collectionsMap) |->
                                  collectionsMap[i].id],
              ingestion |-> [status |-> AgeToStatus(Max(0, t - latestGlobal)),
                             updatedAt |-> latestGlobal],
              datasets |-> [i \in 1..Len(sorted) |->
                               DatasetCard(sorted[i], t)]]

GetStats ==
    /\ call' = [op |-> "getStats", ret |-> GetStatsResult(docs, now),
                at |-> now]
    /\ UNCHANGED <<docs, chunks, now, nOps, appVars>>

(* The system clock is set: Date.now() returns t from here on. The clock   *)
(* is not monotonic.                                                       *)
SetClock(t) ==
    /\ t # now
    /\ now' = t
    /\ UNCHANGED <<docs, chunks, nOps, call, appVars>>

----------------------------------------------------------------------------
(* GET /api/files/[id] and GET /api/files                                  *)

(* A plausible bug: the { status: 404 } option is left out.                *)
FilesIdResponseNo404(doc) ==
    [status |-> 200,
     body |-> IF doc = Null THEN [error |-> "Not found"] ELSE [item |-> doc]]

FilesIdResponse(doc) ==
    IF doc = Null
    THEN [status |-> 404, body |-> [error |-> "Not found"]]
    ELSE [status |-> 200,
          body |-> [item |->
                      [id |-> doc.id, name |-> doc.title, title |-> doc.title,
                       type |-> OrElse(doc.type, "unknown"),
                       collection |-> OrElse(doc.collection, "uncategorized"),
                       tags |-> OrElse(doc.tags, <<>>),
                       version |-> OrElse(doc.version, "v1.0"),
                       createdAt |-> doc.createdAt, text |-> doc.text,
                       chunks |-> Len(doc.chunks)]]]

FilesIdGET(id) ==
    /\ LET doc == GetDocumentResult(docs, id)
       IN  call' = [op |-> "GET /api/files/[id]", arg |-> id, doc |-> doc,
                    ret |-> FilesIdResponse(doc)]
    /\ UNCHANGED <<docs, chunks, now, nOps, appVars>>

----------------------------------------------------------------------------
(* lib/chunk.ts. A text is a string; Len, SubSeq and \o act on it as on a  *)
(* sequence of characters.                                                 *)

DefaultMaxLen == 1200
MinChunkLen == 20

CharAt(s, i) == SubSeq(s, i, i)

(* The characters \s matches and trim() strips, among those of the model.  *)
IsSpace(c) == c \in {" ", "\n", "\t", "\r"}

(* String.prototype.trim                                                   *)
RECURSIVE TrimStart(_)
TrimStart(s) ==
    IF Len(s) > 0 /\ IsSpace(CharAt(s, 1))
    THEN TrimStart(SubSeq(s, 2, Len(s)))
    ELSE s

RECURSIVE TrimEnd(_)
TrimEnd(s) ==
    IF Len(s) > 0 /\ IsSpace(CharAt(s, Len(s)))
    THEN TrimEnd(SubSeq(s, 1, Len(s) - 1))
    ELSE s

Trim(s) == TrimEnd(TrimStart(s))

(* The end of the run of characters satisfying the test that starts at i.  *)
RECURSIVE NewlinesEnd(_, _)
NewlinesEnd(s, i) ==
    IF i < Len(s) /\ CharAt(s, i + 1) = "\n" THEN NewlinesEnd(s, i + 1) ELSE i

RECURSIVE SpacesEnd(_, _)
SpacesEnd(s, i) ==
    IF i < Len(s) /\ IsSpace(CharAt(s, i + 1)) THEN SpacesEnd(s, i + 1) ELSE i

(* input.split(/\n{2,}/g): the pieces between the runs of two or more      *)
(* newlines, empty pieces included.                                        *)
RECURSIVE SplitParagraphs(_, _, _, _)
SplitParagraphs(s, i, start, acc) ==
    IF i > Len(s) THEN Append(acc, SubSeq(s, start, Len(s)))
    ELSE IF CharAt(s, i) = "\n" /\ NewlinesEnd(s, i) > i
         THEN SplitParagraphs(s, NewlinesEnd(s, i) + 1, NewlinesEnd(s, i) + 1,
                              Append(acc, SubSeq(s, start, i - 1)))
         ELSE SplitParagraphs(s, i + 1, start, acc)

(* p.split(/(?<=[.!?])\s+/): the pieces between the runs of whitespace     *)
(* that follow a '.', '!' or '?'.                                          *)
RECURSIVE SplitSentences(_, _, _, _)
SplitSentences(s, i, start, acc) ==
    IF i > Len(s) THEN Append(acc, SubSeq(s, start, Len(s)))
    ELSE IF /\ IsSpace(CharAt(s, i))
            /\ i > 1
            /\ CharAt(s, i - 1) \in {".", "!", "?"}
         THEN SplitSentences(s, SpacesEnd(s, i) + 1, SpacesEnd(s, i) + 1,
                             Append(acc, SubSeq(s, start, i - 1)))
         ELSE SplitSentences(s, i + 1, start, acc)

(* A plausible bug: the length is tested without the joining space.        *)
RECURSIVE AccumulateUnspaced(_, _, _, _, _)
AccumulateUnspaced(sentences, i, buf, out, maxLen) ==
    IF i > Len(sentences)
    THEN IF Len(Trim(buf)) > 0 THEN Append(out, Trim(buf)) ELSE out
    ELSE LET sen == sentences[i]
         IN  IF Len(Trim(buf \o sen)) > maxLen
             THEN AccumulateUnspaced(sentences, i + 1, sen,
                                     IF Len(Trim(buf)) > 0
                                     THEN Append(out, Trim(buf)) ELSE out,
                                     maxLen)
             ELSE AccumulateUnspaced(sentences, i + 1,
                                     Trim(buf \o " " \o sen), out, maxLen)

(* The loop over the sentences of a paragraph that is longer than maxLen,  *)
(* and the flush of the last buffer after it.                              *)
RECURSIVE Accumulate(_, _, _, _, _)
Accumulate(sentences, i, buf, out, maxLen) ==
    IF i > Len(sentences)
    THEN IF Len(Trim(buf)) > 0 THEN Append(out, Trim(buf)) ELSE out
    ELSE LET sen == sentences[i]
         IN  IF Len(Trim(buf \o " " \o sen)) > maxLen
             THEN Accumulate(sentences, i + 1, sen,
                             IF Len(Trim(buf)) > 0
                             THEN Append(out, Trim(buf)) ELSE out,
                             maxLen)
             ELSE Accumulate(sentences, i + 1, Trim(buf \o " " \o sen), out,
                             maxLen)

(* A plausible bug: a short paragraph is pushed as it is, not trimmed.     *)
RECURSIVE ChunkParagraphsUntrimmed(_, _, _, _)
ChunkParagraphsUntrimmed(paragraphs, i, out, maxLen) ==
    IF i > Len(paragraphs) THEN out
    ELSE LET p == paragraphs[i]
         IN  IF Len(p) <= maxLen
             THEN ChunkParagraphsUntrimmed(paragraphs, i + 1, Append(out, p),
                                           maxLen)
             ELSE ChunkParagraphsUntrimmed(paragraphs, i + 1,
                                  Accumulate(SplitSentences(p, 1, 1, <<>>), 1,
                                             "", out, maxLen),
                                  maxLen)

(* The loop over the paragraphs.                                           *)
RECURSIVE ChunkParagraphs(_, _, _, _)
ChunkParagraphs(paragraphs, i, out, maxLen) ==
    IF i > Len(paragraphs) THEN out
    ELSE LET p == paragraphs[i]
         IN  IF Len(p) <= maxLen
             THEN ChunkParagraphs(paragraphs, i + 1, Append(out, Trim(p)),
                                  maxLen)
             ELSE ChunkParagraphs(paragraphs, i + 1,
                                  Accumulate(SplitSentences(p, 1, 1, <<>>), 1,
                                             "", out, maxLen),
                                  maxLen)

(* A plausible bug: the filter drops the empty chunks only.                *)
NotEmpty(c) == Len(Trim(c)) > 0

(* chunks.filter((c) => c.trim().length >= 20)                             *)
LongEnough(c) == Len(Trim(c)) >= MinChunkLen

ChunkText(input, maxLen) ==
    SelectSeq(ChunkParagraphs(SplitParagraphs(input, 1, 1, <<>>), 1, <<>>,
                              maxLen),
              LongEnough)

(* A call chunkText(input, maxLen) that has been handed its arguments      *)
(* runs; one that was handed no maxLen runs with the default.              *)
ChunkTextCall ==
    /\ call.op = "chunkText called"
    /\ call.maxLen # None
    /\ call' = [op |-> "chunkText", input |-> call.input,
                maxLen |-> call.maxLen[1],
                ret |-> ChunkText(call.input, call.maxLen[1])]
    /\ UNCHANGED <<docs, chunks, now, nOps, appVars>>

ChunkTextDefault ==
    /\ call.op = "chunkText called"
    /\ call.maxLen = None
    /\ call' = [op |-> "chunkText", input |-> call.input,
                maxLen |-> DefaultMaxLen,
                ret |-> ChunkText(call.input, DefaultMaxLen)]
    /\ UNCHANGED <<docs, chunks, now, nOps, appVars>>

FilesGET ==
    /\ call' = [op |-> "GET /api/files",
                ret |-> [status |-> 200,
                         body |-> [items |-> ListDocumentsResult(docs)]]]
    /\ UNCHANGED <<docs, chunks, now, nOps, appVars>>

----------------------------------------------------------------------------
(* GET /api/search. The k parameter is absent, or a string Number() turns  *)
(* into NaN or into a number; the embedding provider answers the query     *)
(* with a vector or fails.                                                 *)

SearchRequests ==
    { [q |-> " ", k |-> [kind |-> "absent"]],
      [q |-> "what", k |-> [kind |-> "absent"]],
      [q |-> "what", k |-> [kind |-> "nan"]],
      [q |-> "what", k |-> [kind |-> "num", n |-> 1]],
      [q |-> "what", k |-> [kind |-> "num", n |-> -1]] }

(* Number(searchParams.get("k") || "8"), then isNaN(k) ? 8 : k             *)
SearchK(kParam) == IF kParam.kind = "num" THEN kParam.n ELSE DefaultK

SearchItem(r) ==
    [docId |-> r.docId, chunkId |-> r.chunkId, title |-> r.title,
     type |-> r.type, collection |-> r.collection, tags |-> r.tags,
     text |-> r.text, score |-> r.score]

SearchGET(q, kParam, embedding) ==
    /\ IF Trim(q) = ""
       THEN call' = [op |-> "GET /api/search", arg |-> [q |-> q],
                     ret |-> [status |-> 200, body |-> [results |-> <<>>]]]
       ELSE LET found == SearchResult(docs, chunks, embedding, SearchK(kParam))
            IN  call' = [op |-> "GET /api/search",
                         arg |-> [q |-> q, k |-> SearchK(kParam),
                                  embedding |-> embedding],
                         ret |-> [status |-> 200,
                                  body |-> [query |-> q,
                                            results |->
                                               [i \in 1..Len(found) |->
                                                   SearchItem(found[i])]]]]
    /\ UNCHANGED <<docs, chunks, now, nOps, appVars>>

(* embedQuery rejects: the handler throws before it reaches the store.     *)
SearchGETEmbedFails(q) ==
    /\ Trim(q) # ""
    /\ call' = [op |-> "GET /api/search", arg |-> [q |-> q],
                ret |-> [status |-> 500]]
    /\ UNCHANGED <<docs, chunks, now, nOps, appVars>>

----------------------------------------------------------------------------
(* POST /api/upload. A request carries a content type and the fields of    *)
(* its JSON body or form; a field that is absent is None. The tags of a    *)
(* form are the comma-separated fields of its "tags" string. A file is the *)
(* name of the upload with what extractTextFromFile returns for it.        *)

Truthy(opt) == opt # None /\ opt[1] # ""

(* (x as string) || undefined                                              *)
OrUndefined(opt) == IF Truthy(opt) THEN opt ELSE None

(* a || b                                                                  *)
Either(opt, other) == IF Truthy(opt) THEN opt ELSE other

(* tagsRaw.split(",").map((t) => t.trim()).filter(Boolean)                 *)
RECURSIVE TrimmedNonEmpty(_)
TrimmedNonEmpty(fields) ==
    IF fields = <<>> THEN <<>>
    ELSE LET rest == TrimmedNonEmpty(Tail(fields))
         IN  IF Trim(Head(fields)) = "" THEN rest
             ELSE <<Trim(Head(fields))>> \o rest

(* A plausible bug: the { status: 400 } option is left out.                 *)
BadRequestNoStatus(msg) ==
    [ok |-> FALSE, status |-> 200, body |-> [error |-> msg]]

BadRequest(msg) == [ok |-> FALSE, status |-> 400, body |-> [error |-> msg]]

(* Lines 12-72: the payload of a request, or the 400 response.              *)
ParseUpload(req) ==
    LET title == OrUndefined(req.title)
        type == OrUndefined(req.type)
        collection == Either(req.collection, Some("default"))
        tags == Some(IF req.tags = None THEN <<>>
                     ELSE TrimmedNonEmpty(req.tags[1]))
        version == OrUndefined(req.version)
        text == Either(req.text, Some(""))
        payload ==
            IF req.contentType = "application/json"
            THEN [title |-> req.title, type |-> req.type,
                  collection |-> req.collection, tags |-> req.tags,
                  text |-> req.text, version |-> req.version]
            ELSE IF req.file # None
                 THEN [title |-> Either(title, Some(req.file[1].name)),
                       type |-> Either(type, Some(req.file[1].type)),
                       collection |-> collection, tags |-> tags,
                       text |-> Some(req.file[1].text), version |-> version]
                 ELSE [title |-> title, type |-> Either(type, Some("text")),
                       collection |-> collection, tags |-> tags,
                       text |-> text, version |-> version]
    IN  IF req.contentType \notin {"application/json", "multipart/form-data"}
        THEN BadRequest("Unsupported content type")
        ELSE IF /\ req.contentType = "multipart/form-data"
                /\ req.file # None
                /\ Trim(req.file[1].text) = ""
             THEN IF req.file[1].type = "pdf"
                  THEN BadRequest("PDF parsing failed in this preview. Try DOCX/MD/TXT/CSV/XLSX or paste text.")
                  ELSE BadRequest("Could not extract text from the uploaded file.")
             ELSE IF ~Truthy(payload.text) \/ ~Truthy(payload.title)
                  THEN BadRequest("Missing 'text' or 'title'.")
                  ELSE [ok |-> TRUE, payload |-> payload]

(* `doc_${Date.now()}_${Math.random().toString(36).slice(2)}`              *)
GenDocId(t, rnd) == "doc_" \o ToString(t) \o "_" \o rnd

(* A plausible bug: the chunk id leaves out the document id.               *)
ChunkRecordsBare(id, texts, embeddings) ==
    [i \in 1..Len(texts) |->
        [id |-> "chunk_" \o ToString(i - 1), text |-> texts[i],
         embedding |-> embeddings[i]]]

(* chunks.map((text, i) => ({ id: `${id}_chunk_${i}`, text, embedding }))  *)
ChunkRecords(id, texts, embeddings) ==
    [i \in 1..Len(texts) |->
        [id |-> ChunkId(id, i - 1), text |-> texts[i],
         embedding |-> embeddings[i]]]

(* The argument of upsertDocument, lines 83-92.                            *)
UploadDoc(id, payload, chunkRecords) ==
    [id |-> id, title |-> payload.title[1], type |-> payload.type,
     collection |-> payload.collection, tags |-> payload.tags,
     version |-> Either(payload.version, Some("v1.0")),
     text |-> payload.text[1], chunks |-> chunkRecords]

Created(id, n) == [status |-> 200, body |-> [id |-> id, chunks |-> n]]

(* Lines 10-76: the request is parsed and checked, the id drawn, the text  *)
(* chunked and embedTexts called. Requests are numbered in the order they  *)
(* arrive; a request that is answered stays, with its response.            *)
UploadBegin(r, req, rnd) ==
    /\ reqs[r].pc = "idle"
    /\ \A other \in ReqIds : other < r => reqs[other].pc # "idle"
    /\ LET parsed == ParseUpload(req)
       IN  reqs' = [reqs EXCEPT ![r] =
              IF parsed.ok
              THEN [pc |-> "embedding", id |-> GenDocId(now, rnd),
                    payload |-> parsed.payload,
                    texts |-> ChunkText(parsed.payload.text[1], DefaultMaxLen)]
              ELSE [pc |-> "done",
                    resp |-> [status |-> parsed.status, body |-> parsed.body]]]
    /\ call' = [op |-> "POST /api/upload", req |-> r, arg |-> req]
    /\ UNCHANGED <<docs, chunks, now, nOps, mirrorVars, chat>>

(* Lines 76-92: embedTexts resolves; the chunk records are built and the   *)
(* document upserted, in one turn of the event loop.                       *)
UploadEmbedded(r, embeddings) ==
    /\ reqs[r].pc = "embedding"
    /\ LET rec == ChunkRecords(reqs[r].id, reqs[r].texts, embeddings)
           saved == UpsertPayload(UploadDoc(reqs[r].id, reqs[r].payload, rec),
                                  now)
       IN  /\ docs' = UpsertDocs(docs, saved)
           /\ chunks' = UpsertChunks(chunks, saved)
           /\ reqs' = [reqs EXCEPT ![r] =
                 IF mongoEnabled
                 THEN [pc |-> "getDb", saved |-> saved]
                 ELSE [pc |-> "done",
                       resp |-> Created(saved.id, Len(rec))]]
    /\ call' = [op |-> "POST /api/upload", req |-> r]
    /\ UNCHANGED <<now, nOps, mirrorVars, chat>>

(* A plausible bug: the document is stored before its chunks are embedded, *)
(* so that it stays when embedTexts rejects.                               *)
UploadEmbedFailsStored(r) ==
    /\ reqs[r].pc = "embedding"
    /\ docs' = UpsertDocs(docs,
                  UpsertPayload(UploadDoc(reqs[r].id, reqs[r].payload, <<>>),
                                now))
    /\ reqs' = [reqs EXCEPT ![r] = [pc |-> "done", resp |-> [status |-> 500]]]
    /\ call' = [op |-> "POST /api/upload", req |-> r]
    /\ UNCHANGED <<chunks, now, nOps, mirrorVars, chat>>

(* embedTexts rejects: the handler throws at line 76.                      *)
UploadEmbedFails(r) ==
    /\ reqs[r].pc = "embedding"
    /\ reqs' = [reqs EXCEPT ![r] = [pc |-> "done", resp |-> [status |-> 500]]]
    /\ call' = [op |-> "POST /api/upload", req |-> r]
    /\ UNCHANGED <<docs, chunks, now, nOps, mirrorVars, chat>>

(* Lines 94-136: the mirror. getDb, the write of the document and the      *)
(* write of the chunks each succeed or throw; the catch logs and the       *)
(* handler goes on to its response.                                        *)
MirrorDoc(d) ==
    [id |-> d.id, title |-> d.title, type |-> OrElse(d.type, "unknown"),
     collection |-> OrElse(d.collection, "uncategorized"),
     tags |-> OrElse(d.tags, <<>>), version |-> OrElse(d.version, "v1.0"),
     text |-> d.text, createdAt |-> d.createdAt]

MirrorChunk(d, c) ==
    [id |-> c.id, docId |-> d.id, text |-> c.text, embedding |-> c.embedding]

RECURSIVE PutAll(_, _)
PutAll(coll, vals) ==
    IF vals = <<>> THEN coll ELSE PutAll(MapSet(coll, Head(vals)), Tail(vals))

UploadGetDb(r, ok) ==
    /\ reqs[r].pc = "getDb"
    /\ reqs' = [reqs EXCEPT ![r] =
          IF ok THEN [pc |-> "putDoc", saved |-> reqs[r].saved]
          ELSE [pc |-> "done",
                resp |-> Created(reqs[r].saved.id, Len(reqs[r].saved.chunks))]]
    /\ call' = [op |-> "POST /api/upload", req |-> r]
    /\ UNCHANGED <<docs, chunks, now, nOps, mirrorVars, chat>>

(* A plausible bug: the write of the document is outside the try block, so *)
(* that its failure fails the request.                                     *)
UploadPutDocThrows(r, ok) ==
    /\ reqs[r].pc = "putDoc"
    /\ mirrorDocs' = IF ok THEN MapSet(mirrorDocs, MirrorDoc(reqs[r].saved))
                     ELSE mirrorDocs
    /\ reqs' = [reqs EXCEPT ![r] =
          IF ok /\ Len(reqs[r].saved.chunks) > 0
          THEN [pc |-> "putChunks", saved |-> reqs[r].saved]
          ELSE IF ok
               THEN [pc |-> "done",
                     resp |-> Created(reqs[r].saved.id,
                                      Len(reqs[r].saved.chunks))]
               ELSE [pc |-> "done", resp |-> [status |-> 500]]]
    /\ call' = [op |-> "POST /api/upload", req |-> r]
    /\ UNCHANGED <<docs, chunks, now, nOps, mongoEnabled, mirrorChunks,
                 chat>>

UploadPutDoc(r, ok) ==
    /\ reqs[r].pc = "putDoc"
    /\ mirrorDocs' = IF ok THEN MapSet(mirrorDocs, MirrorDoc(reqs[r].saved))
                     ELSE mirrorDocs
    /\ reqs' = [reqs EXCEPT ![r] =
          IF ok /\ Len(reqs[r].saved.chunks) > 0
          THEN [pc |-> "putChunks", saved |-> reqs[r].saved]
          ELSE [pc |-> "done",
                resp |-> Created(reqs[r].saved.id, Len(reqs[r].saved.chunks))]]
    /\ call' = [op |-> "POST /api/upload", req |-> r]
    /\ UNCHANGED <<docs, chunks, now, nOps, mongoEnabled, mirrorChunks,
                 chat>>

(* bulkWrite(..., { ordered: false }): when it throws, any of the writes   *)
(* but not all of them have been applied.                                  *)
UploadPutChunks(r, written) ==
    /\ reqs[r].pc = "putChunks"
    /\ LET d == reqs[r].saved
           vals == [i \in 1..Len(d.chunks) |-> MirrorChunk(d, d.chunks[i])]
       IN  mirrorChunks' =
              PutAll(mirrorChunks,
                     SelectSeq(vals, LAMBDA v :
                        \E i \in written : vals[i].id = v.id))
    /\ reqs' = [reqs EXCEPT ![r] =
          [pc |-> "done",
           resp |-> Created(reqs[r].saved.id, Len(reqs[r].saved.chunks))]]
    /\ call' = [op |-> "POST /api/upload", req |-> r]
    /\ UNCHANGED <<docs, chunks, now, nOps, mongoEnabled, mirrorDocs,
                 chat>>

----------------------------------------------------------------------------
(* POST /api/chat: the prompt. A message is [role, content] with a string  *)
(* content. The em dash of the source line is written "--" here.           *)

MaxQueryLen == 4000
TopK == 6

(* [...messages].reverse().find((m) => m.role === "user")?.content         *)
RECURSIVE LastUser(_)
LastUser(messages) ==
    IF messages = <<>> THEN None
    ELSE IF messages[Len(messages)].role = "user"
         THEN Some(messages[Len(messages)].content)
         ELSE LastUser(SubSeq(messages, 1, Len(messages) - 1))

(* (lastUser || "").slice(0, 4000)                                         *)
UserQuery(messages) ==
    LET text == IF Truthy(LastUser(messages)) THEN LastUser(messages)[1]
                ELSE ""
    IN  SubSeq(text, 1, Min(MaxQueryLen, Len(text)))

(* Array.prototype.join                                                    *)
RECURSIVE Join(_, _)
Join(parts, sep) ==
    IF parts = <<>> THEN ""
    ELSE IF Len(parts) = 1 THEN parts[1]
    ELSE parts[1] \o sep \o Join(Tail(parts), sep)

(* s || fallback, for a string s                                           *)
OrFallback(s, fallback) == IF s = "" THEN fallback ELSE s

(* A plausible bug: the index is printed as it is, counting from 0.        *)
SourceLineFromZero(r, i) ==
    "[" \o ToString(i) \o "] " \o r.title
        \o (IF Truthy(r.type) THEN " (" \o r.type[1] \o ")" ELSE "")
        \o (IF Truthy(r.collection) THEN " -- " \o r.collection[1] ELSE "")

(* Line 31, for the result r at index i of top, i counting from 0.         *)
SourceLine(r, i) ==
    "[" \o ToString(i + 1) \o "] " \o r.title
        \o (IF Truthy(r.type) THEN " (" \o r.type[1] \o ")" ELSE "")
        \o (IF Truthy(r.collection) THEN " -- " \o r.collection[1] ELSE "")

SourcesList(top) ==
    OrFallback(Join([i \in 1..Len(top) |-> SourceLine(top[i], i - 1)], "\n"),
               "No sources available.")

ContextBlock(r, i) == "[#" \o ToString(i + 1) \o "] " \o r.text

ContextBlocks(top) ==
    OrFallback(Join([i \in 1..Len(top) |-> ContextBlock(top[i], i - 1)],
                    "\n\n"),
               "No relevant context found.")

SystemText(sourcesList) ==
    "You are an AI assistant for an internal Knowledge Hub.\n"
        \o "Use the provided context to answer accurately and concisely.\n"
        \o "Always cite sources inline like [1], [2]. If unsure, say you don't know.\n"
        \o "\nSources:\n" \o sourcesList

PromptText(userQuery, contextBlocks) ==
    "User question: \"\"\"" \o userQuery \o "\"\"\"\n"
        \o "\nContext snippets:\n" \o contextBlocks \o "\n"
        \o "\nInstructions:\n"
        \o "- Answer clearly, with bullet points if helpful.\n"
        \o "- Include inline citations [n] that refer to the sources list above.\n"
        \o "- Add a brief \"Sources:\" section at the end with the cited numbers."

(* A plausible bug: the history is passed on whole.                        *)
PriorUnfiltered(messages) == messages

(* messages.filter((m) => m.role !== "user")                               *)
Prior(messages) == SelectSeq(messages, LAMBDA m : m.role # "user")

(* String(m.content || "")                                                 *)
StringOf(content) == IF content = "" THEN "" ELSE content

(* The messages of lines 62-66.                                            *)
Outgoing(messages, system, prompt) ==
    <<[role |-> "system", content |-> system]>>
        \o [i \in 1..Len(Prior(messages)) |->
               [role |-> Prior(messages)[i].role,
                content |-> StringOf(Prior(messages)[i].content)]]
        \o <<[role |-> "user", content |-> prompt]>>

(* The locals of the handler once retrieval is done, at line 59.           *)
ChatPrepared(messages, userQuery, top) ==
    [pc |-> "creating", messages |-> messages, userQuery |-> userQuery,
     top |-> top, sourcesList |-> SourcesList(top),
     contextBlocks |-> ContextBlocks(top),
     outgoing |-> Outgoing(messages, SystemText(SourcesList(top)),
                           PromptText(userQuery, ContextBlocks(top)))]

----------------------------------------------------------------------------
(* POST /api/chat: the handler. It waits for embedQuery (when there is a   *)
(* query), then for chat.completions.create, then returns the response     *)
(* whose stream's start() runs the loop over the completion. The loop has  *)
(* called next() pulls times; pending is what the call it waits on has     *)
(* settled with, if it has. delivered is what the controller has enqueued, *)
(* which is what the client reads. The stream has no cancel callback and   *)
(* the completion no abort signal: when the client cancels, the stream is  *)
(* closed for it, and enqueue and close throw from then on.                *)

StreamErrorMarker == "\n[Stream error]\n"

ChatAnswered(status) == [pc |-> "done", resp |-> [status |-> status]]

(* Lines 16-26, up to the first await.                                     *)
ChatBegin(messages) ==
    /\ chat.pc = "idle"
    /\ chat' = IF UserQuery(messages) = ""
               THEN ChatPrepared(messages, "", <<>>)
               ELSE [pc |-> "embedding", messages |-> messages,
                     userQuery |-> UserQuery(messages)]
    /\ call' = [op |-> "POST /api/chat"]
    /\ UNCHANGED <<docs, chunks, now, nOps, reqs, mirrorVars>>

(* embedQuery resolves: search(embedding, 6) and the prompt, lines 26-66.  *)
ChatEmbedded(embedding) ==
    /\ chat.pc = "embedding"
    /\ chat' = ChatPrepared(chat.messages, chat.userQuery,
                            SearchResult(docs, chunks, embedding, TopK))
    /\ call' = [op |-> "POST /api/chat"]
    /\ UNCHANGED <<docs, chunks, now, nOps, reqs, mirrorVars>>

(* embedQuery rejects: the handler throws at line 25.                      *)
ChatEmbedFails ==
    /\ chat.pc = "embedding"
    /\ chat' = ChatAnswered(500)
    /\ call' = [op |-> "POST /api/chat"]
    /\ UNCHANGED <<docs, chunks, now, nOps, reqs, mirrorVars>>

(* chat.completions.create resolves: the response is returned with its     *)
(* stream, and start() enters the loop with its first next().              *)
ChatCreated ==
    /\ chat.pc = "creating"
    /\ chat' = [pc |-> "streaming", messages |-> chat.messages,
                userQuery |-> chat.userQuery, top |-> chat.top,
                sourcesList |-> chat.sourcesList,
                contextBlocks |-> chat.contextBlocks,
                outgoing |-> chat.outgoing,
                pulls |-> 1, pending |-> None, produced |-> <<>>,
                delivered |-> <<>>, closed |-> FALSE, cancelled |-> FALSE,
                released |-> FALSE]
    /\ call' = [op |-> "POST /api/chat"]
    /\ UNCHANGED <<docs, chunks, now, nOps, reqs, mirrorVars>>

(* chat.completions.create rejects: the handler throws at line 59.         *)
ChatCreateFails ==
    /\ chat.pc = "creating"
    /\ chat' = ChatAnswered(500)
    /\ call' = [op |-> "POST /api/chat"]
    /\ UNCHANGED <<docs, chunks, now, nOps, reqs, mirrorVars>>

(* The generator: the next() the loop waits on settles with a part whose   *)
(* delta content is delta (the empty string also stands for a part without *)
(* content), with the end of the completion, or with an error.             *)
GenYield(delta) ==
    /\ chat.pc = "streaming"
    /\ chat.pending = None
    /\ Len(chat.produced) < MaxDeltas
    /\ chat' = [chat EXCEPT !.pending = Some([kind |-> "part",
                                              delta |-> delta]),
                            !.produced = Append(@, delta)]
    /\ UNCHANGED <<docs, chunks, now, nOps, call, reqs, mirrorVars>>

GenEnd ==
    /\ chat.pc = "streaming"
    /\ chat.pending = None
    /\ chat' = [chat EXCEPT !.pending = Some([kind |-> "end"])]
    /\ UNCHANGED <<docs, chunks, now, nOps, call, reqs, mirrorVars>>

GenFail ==
    /\ chat.pc = "streaming"
    /\ chat.pending = None
    /\ chat' = [chat EXCEPT !.pending = Some([kind |-> "error"])]
    /\ UNCHANGED <<docs, chunks, now, nOps, call, reqs, mirrorVars>>

(* A plausible bug: every part is enqueued, its delta empty or not.        *)
ChatOnPartAny ==
    /\ chat.pc = "streaming"
    /\ chat.pending # None
    /\ chat.pending[1].kind = "part"
    /\ chat' = IF chat.cancelled
               THEN [chat EXCEPT !.pc = "finished", !.pending = None,
                                 !.released = TRUE]
               ELSE [chat EXCEPT !.delivered = Append(@,
                                                      chat.pending[1].delta),
                                 !.pending = None, !.pulls = @ + 1]
    /\ call' = [op |-> "POST /api/chat"]
    /\ UNCHANGED <<docs, chunks, now, nOps, reqs, mirrorVars>>

(* Lines 73-78, one turn of the loop. A delta that is empty is skipped. A  *)
(* delta is enqueued; when the client has cancelled, enqueue throws, and   *)
(* so do the enqueue of the catch block and the close of the finally       *)
(* block: the loop is left, which returns the iterator and so releases the *)
(* completion. Otherwise the loop calls next() again.                      *)
ChatOnPart ==
    /\ chat.pc = "streaming"
    /\ chat.pending # None
    /\ chat.pending[1].kind = "part"
    /\ chat' = IF chat.pending[1].delta = ""
               THEN [chat EXCEPT !.pending = None, !.pulls = @ + 1]
               ELSE IF chat.cancelled
               THEN [chat EXCEPT !.pc = "finished", !.pending = None,
                                 !.released = TRUE]
               ELSE [chat EXCEPT !.delivered = Append(@,
                                                      chat.pending[1].delta),
                                 !.pending = None, !.pulls = @ + 1]
    /\ call' = [op |-> "POST /api/chat"]
    /\ UNCHANGED <<docs, chunks, now, nOps, reqs, mirrorVars>>

(* The completion ends: the finally block closes the controller (close     *)
(* throws when the client has cancelled).                                  *)
ChatOnEnd ==
    /\ chat.pc = "streaming"
    /\ chat.pending # None
    /\ chat.pending[1].kind = "end"
    /\ chat' = [chat EXCEPT !.pc = "finished", !.pending = None,
                            !.closed = ~chat.cancelled, !.released = TRUE]
    /\ call' = [op |-> "POST /api/chat"]
    /\ UNCHANGED <<docs, chunks, now, nOps, reqs, mirrorVars>>

(* A plausible bug: the catch block is empty, the output just ends.        *)
ChatOnErrorSilent ==
    /\ chat.pc = "streaming"
    /\ chat.pending # None
    /\ chat.pending[1].kind = "error"
    /\ chat' = [chat EXCEPT !.pc = "finished", !.pending = None,
                            !.closed = ~chat.cancelled, !.released = TRUE]
    /\ call' = [op |-> "POST /api/chat"]
    /\ UNCHANGED <<docs, chunks, now, nOps, reqs, mirrorVars>>

(* The completion throws: the catch block enqueues the marker and the      *)
(* finally block closes the controller (both throw when the client has     *)
(* cancelled).                                                             *)
ChatOnError ==
    /\ chat.pc = "streaming"
    /\ chat.pending # None
    /\ chat.pending[1].kind = "error"
    /\ chat' = [chat EXCEPT !.pc = "finished", !.pending = None,
                            !.delivered = IF chat.cancelled THEN @
                                          ELSE Append(@, StreamErrorMarker),
                            !.closed = ~chat.cancelled, !.released = TRUE]
    /\ call' = [op |-> "POST /api/chat"]
    /\ UNCHANGED <<docs, chunks, now, nOps, reqs, mirrorVars>>

(* The client disconnects: the response stream is cancelled.               *)
ChatCancel ==
    /\ chat.pc = "streaming"
    /\ ~chat.cancelled
    /\ chat' = [chat EXCEPT !.cancelled = TRUE]
    /\ UNCHANGED <<docs, chunks, now, nOps, call, reqs, mirrorVars>>

----------------------------------------------------------------------------
(* The requests the handlers are given.                                    *)

TextOne == "Alpha paragraph text one."
TextTwo == TextOne \o "\n\n" \o "Beta paragraph, text two."

NoField == [contentType |-> "application/json", title |-> None, type |-> None,
            collection |-> None, tags |-> None, version |-> None,
            text |-> None, file |-> None]

UploadRequests ==
    { [NoField EXCEPT !.title = Some("Guide"), !.text = Some(TextTwo)],
      [NoField EXCEPT !.title = Some("Guide")],
      [NoField EXCEPT !.contentType = "multipart/form-data",
                      !.title = Some("Notes"), !.type = Some("pdf"),
                      !.tags = Some(<<" t", "">>), !.version = Some("v2.0"),
                      !.text = Some(TextOne)],
      [NoField EXCEPT !.contentType = "multipart/form-data",
                      !.file = Some([name |-> "f.md", text |-> "short\n",
                                     type |-> "markdown"])],
      [NoField EXCEPT !.contentType = "multipart/form-data",
                      !.file = Some([name |-> "f.pdf", text |-> " ",
                                     type |-> "pdf"])],
      [NoField EXCEPT !.contentType = "text/plain"] }

Rands == {"k3x", "9fz"}
EmbeddingVectors == { <<1, 0>>, <<3, 4>> }
QueryVectors == { <<1, 0>> }

(* The handlers, run concurrently, with the mirror not configured.        *)
NextApp ==
    \/ \E r \in ReqIds, req \in UploadRequests, rnd \in Rands :
          UploadBegin(r, req, rnd)
    \/ \E r \in ReqIds :
          /\ reqs[r].pc = "embedding"
          /\ \E e \in [1..Len(reqs[r].texts) -> EmbeddingVectors] :
                UploadEmbedded(r, e)
    \/ \E r \in ReqIds : UploadEmbedFails(r)
    \/ \E req \in SearchRequests, e \in QueryVectors :
          SearchGET(req.q, req.k, e)
    \/ \E q \in {req.q : req \in SearchRequests} : SearchGETEmbedFails(q)
    \/ FilesGET
    \/ \E id \in {GenDocId(0, "k3x"), NoSuchId} : FilesIdGET(id)
    \/ Tick

InitHandlers ==
    /\ docs = <<>>
    /\ chunks = <<>>
    /\ now = 0
    /\ nOps = 0
    /\ call = [op |-> "none"]
    /\ reqs = [r \in ReqIds |-> [pc |-> "idle"]]
    /\ mirrorDocs = <<>>
    /\ mirrorChunks = <<>>
    /\ chat = [pc |-> "idle"]

InitApp == InitHandlers /\ mongoEnabled = FALSE

SpecApp == InitApp /\ [][NextApp]_vars

(* The upload handler with the mirror configured.                          *)
NextMirror ==
    \/ \E r \in ReqIds, req \in UploadRequests, rnd \in Rands :
          UploadBegin(r, req, rnd)
    \/ \E r \in ReqIds :
          /\ reqs[r].pc = "embedding"
          /\ \E e \in [1..Len(reqs[r].texts) -> EmbeddingVectors] :
                UploadEmbedded(r, e)
    \/ \E r \in ReqIds : UploadEmbedFails(r)
    \/ \E r \in ReqIds, ok \in BOOLEAN : UploadGetDb(r, ok)
    \/ \E r \in ReqIds, ok \in BOOLEAN : UploadPutDoc(r, ok)
    \/ \E r \in ReqIds :
          /\ reqs[r].pc = "putChunks"
          /\ \E written \in SUBSET (1..Len(reqs[r].saved.chunks)) :
                UploadPutChunks(r, written)
    \/ FilesGET

InitMirror == InitHandlers /\ mongoEnabled = TRUE

SpecMirror == InitMirror /\ [][NextMirror]_vars

----------------------------------------------------------------------------
(* The store's operations, called in any order.                            *)

Next ==
    \/ \E doc \in DocInputs : UpsertDocument(doc)
    \/ ResetStore
    \/ Tick
    \/ \E q \in Queries, k \in Ks : Search(q, k)
    \/ \E id \in DocIds \cup {NoSuchId} : FilesIdGET(id)
    \/ Stats

Spec == Init /\ [][Next]_vars

(* The store under a clock that runs over the thresholds of getStats: the *)
(* documents differ in their collection, and time moves between the calls. *)
ClockTimes == {0, 119999, 120000, 3599999, 3600000, 3720000}

StatsDocInputs == {doc \in DocInputs : Len(doc.chunks) = 1}

NextStats ==
    \/ \E doc \in StatsDocInputs : UpsertDocument(doc)
    \/ ResetStore
    \/ \E t \in ClockTimes : SetClock(t)
    \/ GetStats

SpecStats == Init /\ [][NextStats]_vars

(* chunkText on its own. A text is up to MaxPieces sentences, each joined  *)
(* to the next by a space, a line break, a blank line or a blank line with *)
(* spaces around it.                                                       *)
MaxPieces == 3

Pieces == {"Para one sentence.", "Another sentence.", "Para two.",
           "This sentence is a long one!"}
Joints == {" ", "\n", "\n\n", " \n\n\n "}

RECURSIVE Texts(_)
Texts(n) ==
    IF n = 1 THEN Pieces
    ELSE Texts(n - 1) \cup
         {t \o j \o p : t \in Texts(n - 1), j \in Joints, p \in Pieces}

MaxLens == {0, 20, 35, 36}

MaxLenArgs == {None} \cup {Some(n) : n \in MaxLens}

InitChunk ==
    /\ docs = <<>>
    /\ chunks = <<>>
    /\ now = 0
    /\ nOps = 0
    /\ reqs = [r \in ReqIds |-> [pc |-> "idle"]]
    /\ mongoEnabled = FALSE
    /\ mirrorDocs = <<>>
    /\ mirrorChunks = <<>>
    /\ chat = [pc |-> "idle"]
    /\ call \in {[op |-> "chunkText called", input |-> input,
                  maxLen |-> maxLen]
                 : input \in Texts(MaxPieces), maxLen \in MaxLenArgs}

NextChunk ==
    \/ ChunkTextCall
    \/ ChunkTextDefault

SpecChunk == InitChunk /\ [][NextChunk]_vars

(* The chat handler over a store that upserts have filled before: with    *)
(* nothing, with a document of seven chunks, more than a chat retrieves,   *)
(* with a document of one chunk that has a type and a collection, or with  *)
(* both. A history holds turns of the user and of others, and a question   *)
(* longer than the handler takes.                                          *)
SevenChunks ==
    [i \in 1..7 |->
        [id |-> ChunkId("d1", i - 1),
         text |-> IF i % 2 = 1 THEN "alpha" ELSE "beta",
         embedding |-> IF i % 2 = 1 THEN <<1, 0>> ELSE <<3, 4>>]]

GuideDoc ==
    [id |-> "d1", title |-> "Guide", type |-> None, collection |-> None,
     tags |-> None, text |-> "body", chunks |-> SevenChunks,
     version |-> None]
NotesDoc ==
    [id |-> "d2", title |-> "Notes", type |-> Some("pdf"),
     collection |-> Some("kb"), tags |-> Some(<<"t">>), text |-> "body",
     chunks |-> <<[id |-> ChunkId("d2", 0), text |-> "gamma",
                   embedding |-> <<1, 0>>]>>,
     version |-> Some("v2.0")]

Fillings == { <<>>, <<GuideDoc>>, <<NotesDoc>>, <<GuideDoc, NotesDoc>>,
              <<NotesDoc, GuideDoc>> }

(* The store after upsertDocument of each document of inputs, in order.    *)
RECURSIVE DocsAfter(_, _)
DocsAfter(inputs, t) ==
    IF inputs = <<>> THEN <<>>
    ELSE UpsertDocs(DocsAfter(SubSeq(inputs, 1, Len(inputs) - 1), t),
                    UpsertPayload(inputs[Len(inputs)], t))

RECURSIVE ChunksAfter(_, _)
ChunksAfter(inputs, t) ==
    IF inputs = <<>> THEN <<>>
    ELSE UpsertChunks(ChunksAfter(SubSeq(inputs, 1, Len(inputs) - 1), t),
                      UpsertPayload(inputs[Len(inputs)], t))

InitChat ==
    /\ \E inputs \in Fillings :
          /\ docs = DocsAfter(inputs, 0)
          /\ chunks = ChunksAfter(inputs, 0)
          /\ nOps = Len(inputs)
    /\ now = 0
    /\ call = [op |-> "none"]
    /\ reqs = [r \in ReqIds |-> [pc |-> "idle"]]
    /\ mongoEnabled = FALSE
    /\ mirrorDocs = <<>>
    /\ mirrorChunks = <<>>
    /\ chat = [pc |-> "idle"]

RECURSIVE Repeat(_, _)
Repeat(s, n) == IF n = 0 THEN "" ELSE s \o Repeat(s, n - 1)

LongQuestion == Repeat(Repeat("0123456789", 40), 10) \o "?"

Histories ==
    { <<>>,
      <<[role |-> "user", content |-> "what"]>>,
      <<[role |-> "user", content |-> "first"],
        [role |-> "assistant", content |-> "answer"],
        [role |-> "user", content |-> "what"]>>,
      <<[role |-> "system", content |-> "be brief"],
        [role |-> "assistant", content |-> ""]>>,
      <<[role |-> "user", content |-> "what"],
        [role |-> "assistant", content |-> "answer"],
        [role |-> "user", content |-> ""]>>,
      <<[role |-> "user", content |-> LongQuestion]>> }

Deltas == {"", "Hel", "lo"}

NextChat ==
    \/ \E messages \in Histories : ChatBegin(messages)
    \/ \E e \in QueryVectors : ChatEmbedded(e)
    \/ ChatEmbedFails
    \/ ChatCreated
    \/ ChatCreateFails
    \/ \E delta \in Deltas : GenYield(delta)
    \/ GenEnd
    \/ GenFail
    \/ ChatOnPart
    \/ ChatOnEnd
    \/ ChatOnError
    \/ ChatCancel

(* The event loop runs a continuation whose promise has settled.           *)
ChatFairness ==
    /\ WF_vars(ChatOnPart)
    /\ WF_vars(ChatOnEnd)
    /\ WF_vars(ChatOnError)

SpecChat == InitChat /\ [][NextChat]_vars /\ ChatFairness

----------------------------------------------------------------------------
(* Notions the properties share.                                           *)

IsSearch == call.op = "search"
IsUpsert == call.op = "upsertDocument"

(* A step that performs upsertDocument.                                    *)
UpsertStep == nOps' = nOps + 1 /\ call'.op = "upsertDocument"

Ids(s) == {s[i].id : i \in 1..Len(s)}
PosOf(m, key) == CHOOSE i \in 1..Len(m) : m[i].id = key

(* The positions in the chunk map of the chunks whose document exists.     *)
Live == {i \in 1..Len(chunks) : MapHas(docs, chunks[i].docId)}

ScoreAt(embedding, i) == CosineSim(embedding, chunks[i].embedding)

(* Chunk i ranks before chunk j: a higher score, or the same score and an  *)
(* earlier place in the chunk map.                                         *)
RanksBefore(embedding, i, j) ==
    \/ ScoreLess(ScoreAt(embedding, j), ScoreAt(embedding, i))
    \/ /\ ~ScoreLess(ScoreAt(embedding, i), ScoreAt(embedding, j))
       /\ i < j

RECURSIVE SumValues(_, _)
SumValues(f, keys) ==
    IF keys = {} THEN 0
    ELSE LET key == CHOOSE x \in keys : TRUE
         IN  f[key] + SumValues(f, keys \ {key})

----------------------------------------------------------------------------
(* C1: however upload requests interleave with one another and with       *)
(* search, list and lookup requests, every document in the document map    *)
(* has all the chunks of the upsert that stored it in the chunk map, under *)
(* its id and with their text and embedding; a search that is not cut      *)
(* short by k returns every one of them, and the list reports no more      *)
(* chunks for a document than the chunk map holds for it.                  *)
ChunkEntry(d, c) ==
    [docId |-> d.id, id |-> c.id, text |-> c.text, embedding |-> c.embedding]

C1_StoreWhole ==
    \A i \in 1..Len(docs) :
        \A j \in 1..Len(docs[i].chunks) :
            /\ MapHas(chunks, docs[i].chunks[j].id)
            /\ MapGet(chunks, docs[i].chunks[j].id) =
                  ChunkEntry(docs[i], docs[i].chunks[j])

C1_SearchSeesWhole ==
    (/\ call.op = "GET /api/search"
     /\ call.ret.status = 200
     /\ Trim(call.arg.q) # "") =>
        (call.arg.k >= Len(chunks) =>
            \A i \in 1..Len(docs) :
                \A j \in 1..Len(docs[i].chunks) :
                    \E a \in 1..Len(call.ret.body.results) :
                        /\ call.ret.body.results[a].chunkId =
                              docs[i].chunks[j].id
                        /\ call.ret.body.results[a].docId = docs[i].id
                        /\ call.ret.body.results[a].text =
                              docs[i].chunks[j].text)

C1_ListSeesWhole ==
    call.op = "GET /api/files" =>
        \A i \in 1..Len(call.ret.body.items) :
            call.ret.body.items[i].chunks <=
               Cardinality({n \in 1..Len(chunks) :
                              chunks[n].docId = call.ret.body.items[i].id})

C1_UpsertAtomic == C1_StoreWhole /\ C1_SearchSeesWhole /\ C1_ListSeesWhole

(* A search answered while one upload waits for its embeddings, after      *)
(* another stored a document of two chunks: both chunks are returned.      *)
C1_Witness ==
    /\ call.op = "GET /api/search"
    /\ call.ret.status = 200
    /\ Trim(call.arg.q) # ""
    /\ Len(call.ret.body.results) = 2
    /\ Len(docs) = 1
    /\ Len(docs[1].chunks) = 2
    /\ \E r \in ReqIds : reqs[r].pc = "embedding"

(* C2: whatever the store holds, the query vector and k, the sequence      *)
(* search returns is sorted by non-increasing score: no result has a       *)
(* smaller score than the result that follows it.                          *)
C2_SearchSorted ==
    IsSearch =>
        \A i \in 1..(Len(call.ret) - 1) :
            ~ScoreLess(call.ret[i].score, call.ret[i + 1].score)

(* A search whose sort moved a later chunk with a strictly higher score to *)
(* the front.                                                              *)
C2_Witness ==
    /\ IsSearch
    /\ Len(call.ret) >= 2
    /\ ScoreLess(call.ret[2].score, call.ret[1].score)
    /\ call.ret[1].index > call.ret[2].index

(* C3: for every k a caller can pass, negative ones included, search       *)
(* returns at most min(k, number of chunks in the store) results (a count  *)
(* is never negative, so for a negative k the bound is read as 0: no       *)
(* results).                                                               *)
C3_AtMostMinK ==
    IsSearch => Len(call.ret) <= Max(0, Min(call.arg.k, Len(chunks)))

(* C4: for k >= 0, search returns exactly the first min(k, n) of the n     *)
(* chunks whose document exists, ranked by score descending with equal     *)
(* scores in chunk-map insertion order; an upsert never moves a chunk id   *)
(* that is already in the chunk map.                                       *)
C4_Prefix ==
    (IsSearch /\ call.arg.k >= 0) =>
        LET r == call.ret
            q == call.arg.embedding
            at(a) == PosOf(chunks, r[a].chunkId)
        IN  /\ Len(r) = Min(call.arg.k, Cardinality(Live))
            /\ \A a \in 1..Len(r) :
                  /\ r[a].chunkId \in {chunks[i].id : i \in Live}
                  /\ r[a].score = ScoreAt(q, at(a))
                  /\ r[a].text = chunks[at(a)].text
            /\ \A a, b \in 1..Len(r) : a < b => RanksBefore(q, at(a), at(b))
            /\ \A j \in Live \ {at(a) : a \in 1..Len(r)} :
                  \A a \in 1..Len(r) : RanksBefore(q, at(a), j)

C4_KeepsPlace ==
    UpsertStep =>
        /\ Len(chunks') >= Len(chunks)
        /\ \A i \in 1..Len(chunks) : chunks'[i].id = chunks[i].id

C4_SearchExact == []C4_Prefix /\ [][C4_KeepsPlace]_vars

(* A search that cut a list of two equally scored chunks, after the first  *)
(* of them had been upserted again.                                        *)
C4_Witness ==
    /\ IsSearch
    /\ call.arg.k = 1
    /\ Len(call.ret) = 1
    /\ Len(docs) = 1
    /\ Len(chunks) = 2
    /\ ScoreAt(call.arg.embedding, 1) = ScoreAt(call.arg.embedding, 2)
    /\ chunks[1].id \in Ids(docs[1].chunks)
    /\ chunks[2].id \notin Ids(docs[1].chunks)
    /\ call.ret[1].chunkId = chunks[1].id

(* C5: every result of search refers to a document in the document map,    *)
(* the one its chunk names, and carries that document's title, type,       *)
(* collection and tags as they are stored now.                             *)
C5_ResultsCarryCurrentDoc ==
    IsSearch =>
        \A a \in 1..Len(call.ret) :
            LET r == call.ret[a]
            IN  /\ MapHas(chunks, r.chunkId)
                /\ r.docId = MapGet(chunks, r.chunkId).docId
                /\ MapHas(docs, r.docId)
                /\ r.title = MapGet(docs, r.docId).title
                /\ r.type = MapGet(docs, r.docId).type
                /\ r.collection = MapGet(docs, r.docId).collection
                /\ r.tags = MapGet(docs, r.docId).tags

(* A search over two documents with different metadata that returned a     *)
(* chunk indexed by an earlier upsert of its document.                     *)
C5_Witness ==
    /\ IsSearch
    /\ Len(docs) = 2
    /\ docs[1].title # docs[2].title
    /\ \E a \in 1..Len(call.ret) :
          /\ call.ret[a].chunkId \notin Ids(MapGet(docs, call.ret[a].docId).chunks)
          /\ call.ret[a].title = MapGet(docs, call.ret[a].docId).title

(* C6: an upsert leaves every chunk-map entry whose id is not among the    *)
(* chunks it passes as it was (same place, text, embedding, document id),  *)
(* and replaces the document record; so the chunks of an earlier upsert    *)
(* of the same id stay, and a search with k large enough returns them      *)
(* attributed to that id.                                                  *)
C6_OthersStay ==
    UpsertStep =>
        /\ Len(chunks') >= Len(chunks)
        /\ \A i \in 1..Len(chunks) :
              chunks[i].id \notin Ids(call'.arg.chunks) => chunks'[i] = chunks[i]
        /\ \A i \in 1..Len(call'.arg.chunks) :
              LET c == call'.arg.chunks[i]
              IN  /\ MapHas(chunks', c.id)
                  /\ MapGet(chunks', c.id) =
                        [docId |-> call'.arg.id, id |-> c.id, text |-> c.text,
                         embedding |-> c.embedding]
        /\ MapGet(docs', call'.arg.id) = call'.ret

C6_AllReturned ==
    (IsSearch /\ call.arg.k >= Len(chunks)) =>
        \A i \in 1..Len(chunks) :
            \E a \in 1..Len(call.ret) :
                /\ call.ret[a].chunkId = chunks[i].id
                /\ call.ret[a].docId = chunks[i].docId
                /\ call.ret[a].text = chunks[i].text

C6_StaleChunksStay == [][C6_OthersStay]_vars /\ []C6_AllReturned

(* Right after a second upsert of a document id with fewer chunks: a chunk *)
(* of the first upsert is still in the chunk map under that id.            *)
C6_Witness ==
    /\ IsUpsert
    /\ \E i \in 1..Len(chunks) :
          /\ chunks[i].docId = call.arg.id
          /\ chunks[i].id \notin Ids(call.arg.chunks)

(* C7: a document's createdAt never changes once the document id is in     *)
(* the store, whatever operation follows, an upsert of the same id         *)
(* included.                                                               *)
C7_CreatedAtKept ==
    \A id \in DocIds :
        (MapHas(docs, id) /\ MapHas(docs', id)) =>
            MapGet(docs', id).createdAt = MapGet(docs, id).createdAt

C7_CreatedAtImmutable == [][C7_CreatedAtKept]_vars

(* C8: right after upsertDocument(doc) returns, getDocument(doc.id) is the *)
(* record it returned: createdAt is the clock value at the upsert, every   *)
(* other field is the input's.                                             *)
C8_UpsertThenGet ==
    IsUpsert =>
        LET got == GetDocumentResult(docs, call.arg.id)
        IN  /\ got # Null
            /\ got = call.ret
            /\ got.createdAt = call.at
            /\ got.id = call.arg.id
            /\ got.title = call.arg.title
            /\ got.type = call.arg.type
            /\ got.collection = call.arg.collection
            /\ got.tags = call.arg.tags
            /\ got.text = call.arg.text
            /\ got.version = call.arg.version
            /\ got.chunks = call.arg.chunks

(* An upsert that replaced the first of two documents, later than it was   *)
(* first stored.                                                           *)
C8_Witness ==
    /\ IsUpsert
    /\ Len(docs) = 2
    /\ call.arg.id = docs[1].id
    /\ call.at > docs[2].createdAt

(* C9: getDocument returns null exactly for an id that is not in the       *)
(* document map, and the document otherwise; GET /api/files/[id] answers   *)
(* 404 'Not found' for null and 200 otherwise; neither changes the store.  *)
C9_Lookup ==
    call.op = "GET /api/files/[id]" =>
        IF MapHas(docs, call.arg)
        THEN /\ call.doc # Null
             /\ call.doc.id = call.arg
             /\ call.ret.status = 200
             /\ call.ret.body.item.id = call.arg
        ELSE /\ call.doc = Null
             /\ call.ret = [status |-> 404, body |-> [error |-> "Not found"]]

C9_ReadOnly ==
    (call'.op = "GET /api/files/[id]" /\ call' # call) =>
        UNCHANGED <<docs, chunks>>

C9_NotFound == []C9_Lookup /\ [][C9_ReadOnly]_vars

(* A lookup of an id that was never upserted, in a store that holds        *)
(* documents.                                                              *)
C9_Witness ==
    /\ call.op = "GET /api/files/[id]"
    /\ call.arg = NoSuchId
    /\ call.ret.status = 404
    /\ Len(docs) = 2

(* C10: the per-collection counts of stats() sum to the number of          *)
(* documents listDocuments() returns, so do the per-type counts, and so    *)
(* does totalDocs; each label's count is the number of listed documents    *)
(* with that label ("uncategorized", "unknown" when left out).             *)
C10_StatsSums ==
    call.op = "stats" =>
        LET st == call.ret
            n == Len(call.list)
        IN  /\ st.totalDocs = n
            /\ SumValues(st.byCollection, DOMAIN st.byCollection) = n
            /\ SumValues(st.byType, DOMAIN st.byType) = n
            /\ \A key \in DOMAIN st.byCollection :
                  st.byCollection[key] =
                     Cardinality({i \in 1..n : call.list[i].collection = key})
            /\ \A key \in DOMAIN st.byType :
                  st.byType[key] =
                     Cardinality({i \in 1..n : call.list[i].type = key})
            /\ \A i \in 1..Len(docs) :
                  docs[i].collection = None =>
                     "uncategorized" \in DOMAIN st.byCollection

(* stats() over two documents that were both stored without a collection   *)
(* and a type.                                                             *)
C10_Witness ==
    /\ call.op = "stats"
    /\ call.ret.totalDocs = 2
    /\ DOMAIN call.ret.byCollection = {"uncategorized"}
    /\ call.ret.byCollection["uncategorized"] = 2
    /\ call.ret.byType["unknown"] = 2

----------------------------------------------------------------------------
(* C11: the store only grows. Under every operation the store module       *)
(* exports, the ids in the document map and the ids in the chunk map after *)
(* the operation include those before it: no exported operation removes a  *)
(* document or a chunk.                                                    *)
C11_Grows ==
    /\ Ids(docs) \subseteq Ids(docs')
    /\ Ids(chunks) \subseteq Ids(chunks')

C11_StoreOnlyGrows == [][C11_Grows]_vars

----------------------------------------------------------------------------
(* Notions the properties of getStats share.                               *)

IsGetStats == call.op = "getStats"

Collections == {CollectionOf(docs[i]) : i \in 1..Len(docs)}

(* The latest createdAt among the documents of ds that are in collection   *)
(* c, and among all of them.                                               *)
CreatedIn(ds, c) ==
    {ds[i].createdAt : i \in {j \in 1..Len(ds) : CollectionOf(ds[j]) = c}}
CreatedAll(ds) == {ds[i].createdAt : i \in 1..Len(ds)}
Greatest(S) == CHOOSE m \in S : \A x \in S : x <= m

HasCard(res, c) == \E i \in 1..Len(res.datasets) : res.datasets[i].name = c
CardOf(res, c) ==
    res.datasets[CHOOSE i \in 1..Len(res.datasets) : res.datasets[i].name = c]

(* The status st is the one the age buckets give for age.                  *)
StatusFor(st, age) ==
    /\ st \in {"Up-to-date", "Refreshing", "Stale"}
    /\ st = "Up-to-date" <=> age < 120000
    /\ st = "Refreshing" <=> (120000 <= age /\ age < 3600000)
    /\ st = "Stale" <=> age >= 3600000

StatusRank(st) ==
    IF st = "Up-to-date" THEN 0 ELSE IF st = "Refreshing" THEN 1 ELSE 2

----------------------------------------------------------------------------
(* C12: getStats() on a store with no documents returns sourcesCount 0, an *)
(* empty collections list, an empty datasets list and the placeholder      *)
(* ingestion status; on a store with a document it never returns the       *)
(* placeholder status.                                                     *)
C12_EmptyStats ==
    IsGetStats =>
        /\ Len(docs) = 0 =>
              call.ret = [sourcesCount |-> 0, collections |-> <<>>,
                          ingestion |-> [status |-> "--"], datasets |-> <<>>]
        /\ Len(docs) > 0 =>
              /\ call.ret.ingestion.status # "--"
              /\ call.ret.sourcesCount = Len(docs)

(* getStats() on a store that was emptied, at a time past the start.       *)
C12_Witness ==
    /\ IsGetStats
    /\ Len(docs) = 0
    /\ nOps > 0
    /\ call.at > 0
    /\ call.ret.ingestion.status = "--"

----------------------------------------------------------------------------
(* C13: in what getStats() returns there is one dataset card for every     *)
(* collection that has a document, and its status is the age bucket of     *)
(* age = now - (the greatest createdAt of the documents now in that        *)
(* collection): Up-to-date iff age < 120000, Refreshing iff                *)
(* 120000 <= age < 3600000, Stale iff age >= 3600000. The ingestion status *)
(* is the bucket of now - (the greatest createdAt of all documents).       *)
C13_StatusByAge ==
    (IsGetStats /\ Len(docs) > 0) =>
        /\ {call.ret.datasets[i].name : i \in 1..Len(call.ret.datasets)}
              = Collections
        /\ Len(call.ret.datasets) = Cardinality(Collections)
        /\ \A c \in Collections :
              StatusFor(CardOf(call.ret, c).status,
                        call.at - Greatest(CreatedIn(docs, c)))
        /\ StatusFor(call.ret.ingestion.status,
                     call.at - Greatest(CreatedAll(docs)))

(* getStats() an hour after one collection got its document, when the      *)
(* other collection's document is younger: one card Stale at the age of    *)
(* exactly 3600000, the other Refreshing.                                  *)
C13_Witness ==
    /\ IsGetStats
    /\ Len(call.ret.datasets) = 2
    /\ \E c \in Collections :
          /\ call.at - Greatest(CreatedIn(docs, c)) = 3600000
          /\ CardOf(call.ret, c).status = "Stale"
    /\ \E c \in Collections : CardOf(call.ret, c).status = "Refreshing"
    /\ call.ret.ingestion.status = "Refreshing"

----------------------------------------------------------------------------
(* C14: what getStats() reports for a collection is Up-to-date right after *)
(* a document is upserted into it; when the clock, not behind any stored   *)
(* createdAt, moves on to two minutes or more (and less than an hour) past *)
(* the collection's latest document, an Up-to-date status becomes          *)
(* Refreshing; and over any step in which the clock does not go back and   *)
(* no document is upserted into the collection, the status does not move   *)
(* backward in the order Up-to-date, Refreshing, Stale.                    *)
C14_FreshAfterUpsert ==
    UpsertStep =>
        LET after == GetStatsResult(docs', now')
            c == CollectionOf(call'.ret)
        IN  HasCard(after, c) /\ CardOf(after, c).status = "Up-to-date"

C14_TurnsRefreshing ==
    (/\ docs' = docs
     /\ now' > now
     /\ \A i \in 1..Len(docs) : docs[i].createdAt <= now)
    => LET before == GetStatsResult(docs, now)
           after == GetStatsResult(docs', now')
       IN  \A c \in Collections :
              LET age == now' - Greatest(CreatedIn(docs, c))
              IN  (/\ CardOf(before, c).status = "Up-to-date"
                   /\ 120000 <= age /\ age < 3600000)
                  => CardOf(after, c).status = "Refreshing"

C14_NeverBackward ==
    (now' >= now /\ <<docs, now>>' # <<docs, now>>)
    => LET before == GetStatsResult(docs, now)
           after == GetStatsResult(docs', now')
       IN  \A c \in Collections :
              (/\ ~(UpsertStep /\ CollectionOf(call'.ret) = c)
               /\ HasCard(after, c))
              => StatusRank(CardOf(after, c).status)
                    >= StatusRank(CardOf(before, c).status)

C14_StatusMovesForward ==
    [][C14_FreshAfterUpsert /\ C14_TurnsRefreshing /\ C14_NeverBackward]_vars

(* getStats() two minutes after the only upsert: the collection, which was *)
(* Up-to-date when its document was stored at 0, is reported Refreshing.   *)
C14_Witness ==
    /\ IsGetStats
    /\ nOps = 1
    /\ Len(docs) = 1
    /\ docs[1].createdAt = 0
    /\ call.at = 120000
    /\ CardOf(call.ret, CollectionOf(docs[1])).status = "Refreshing"
    /\ GetStatsResult(docs, 0).datasets[1].status = "Up-to-date"

----------------------------------------------------------------------------
(* Notions the properties of chunkText share.                              *)

IsChunkText == call.op = "chunkText"

(* The paragraphs of the input, and the sentences of all of them.          *)
ParagraphsOf(input) == SplitParagraphs(input, 1, 1, <<>>)
SentencesOf(input) ==
    UNION { LET sens == SplitSentences(ParagraphsOf(input)[i], 1, 1, <<>>)
            IN  {sens[j] : j \in 1..Len(sens)}
            : i \in 1..Len(ParagraphsOf(input)) }

ScenarioA == "Para one sentence. Another sentence.\n\nPara two."

----------------------------------------------------------------------------
(* C15: for maxLen > 0, every chunk chunkText emits is at most maxLen      *)
(* long, unless it is a single sentence of the input that is itself longer *)
(* than maxLen.                                                            *)
C15_ChunksFit ==
    (IsChunkText /\ call.maxLen > 0) =>
        \A i \in 1..Len(call.ret) :
            \/ Len(call.ret[i]) <= call.maxLen
            \/ \E sen \in SentencesOf(call.input) :
                  /\ Trim(sen) = call.ret[i]
                  /\ Len(sen) > call.maxLen

(* A paragraph of two sentences that is one character over maxLen: it is   *)
(* cut in two, and the sentence that alone exceeds maxLen comes out whole. *)
C15_Witness ==
    /\ IsChunkText
    /\ call.maxLen = 20
    /\ call.input = "Another sentence. This sentence is a long one! Para two."
    /\ call.ret = <<"This sentence is a long one!">>

----------------------------------------------------------------------------
(* C16: no chunk chunkText emits has a trimmed length below 20, whatever   *)
(* maxLen is; an input all of whose paragraphs and sentences are shorter   *)
(* than 20 characters yields the empty list.                               *)
C16_NoShortChunks ==
    IsChunkText =>
        /\ \A i \in 1..Len(call.ret) : Len(Trim(call.ret[i])) >= 20
        /\ (\A i \in 1..Len(ParagraphsOf(call.input)) :
               Len(ParagraphsOf(call.input)[i]) < 20)
           => call.ret = <<>>

(* Three paragraphs, each shorter than 20 characters: nothing comes out.   *)
C16_Witness ==
    /\ IsChunkText
    /\ call.input = "Para one sentence.\n\nAnother sentence.\n\nPara two."
    /\ call.maxLen = 1200
    /\ call.ret = <<>>

----------------------------------------------------------------------------
(* C17: when every paragraph of the input is at most maxLen long,          *)
(* chunkText emits exactly one chunk per paragraph, the trimmed paragraph, *)
(* in input order; the text of Scenario A with maxLen = 1200 yields the    *)
(* two chunks "Para one sentence. Another sentence." and "Para two.".      *)
C17_OnePerParagraph ==
    (/\ IsChunkText
     /\ \A i \in 1..Len(ParagraphsOf(call.input)) :
           Len(ParagraphsOf(call.input)[i]) <= call.maxLen)
    => /\ call.ret = [i \in 1..Len(ParagraphsOf(call.input)) |->
                         Trim(ParagraphsOf(call.input)[i])]
       /\ (call.input = ScenarioA /\ call.maxLen = 1200)
          => call.ret = <<"Para one sentence. Another sentence.",
                          "Para two.">>

(* C17 as amended: when every paragraph of the input is at most maxLen     *)
(* long, chunkText emits exactly one chunk per paragraph whose trimmed     *)
(* length is at least 20, the trimmed paragraph, in input order, and none  *)
(* for the shorter paragraphs; the text of Scenario A with maxLen = 1200   *)
(* yields the one chunk "Para one sentence. Another sentence.".            *)
C17_OnePerLongParagraph ==
    (/\ IsChunkText
     /\ \A i \in 1..Len(ParagraphsOf(call.input)) :
           Len(ParagraphsOf(call.input)[i]) <= call.maxLen)
    => /\ call.ret =
             SelectSeq([i \in 1..Len(ParagraphsOf(call.input)) |->
                           Trim(ParagraphsOf(call.input)[i])],
                       LAMBDA c : Len(c) >= 20)
       /\ (call.input = ScenarioA /\ call.maxLen = 1200)
          => call.ret = <<"Para one sentence. Another sentence.">>

(* chunkText on the text of Scenario A with the default maxLen.            *)
C17_Witness ==
    /\ IsChunkText
    /\ call.input = ScenarioA
    /\ call.maxLen = 1200
    /\ Len(call.ret) = 1

----------------------------------------------------------------------------
(* Notions the properties of POST /api/upload share.                       *)

(* The step is the first step of an upload request: call' holds the        *)
(* request it was given.                                                   *)
UploadArrives == call'.op = "POST /api/upload" /\ "arg" \in DOMAIN call'

UnsupportedType(req) ==
    req.contentType \notin {"application/json", "multipart/form-data"}
EmptyExtraction(req) ==
    /\ req.contentType = "multipart/form-data"
    /\ req.file # None
    /\ Trim(req.file[1].text) = ""
MissingTitleOrText(req) ==
    /\ \/ req.contentType = "application/json"
       \/ req.contentType = "multipart/form-data" /\ req.file = None
    /\ req.title \in {None, Some("")} \/ req.text \in {None, Some("")}

StoreUnchanged == docs' = docs /\ chunks' = chunks
MirrorUnchanged == mirrorDocs' = mirrorDocs /\ mirrorChunks' = mirrorChunks

----------------------------------------------------------------------------
(* C18: an upload request with a missing title or text, with a file whose  *)
(* extracted text is empty, or with an unsupported content type is         *)
(* answered with an error response in the step it arrives in, which leaves *)
(* the document map, the chunk map and the mirror as they were; it never   *)
(* waits for an embedding. And a request answered with the status 400 was  *)
(* answered in the step it arrived in.                                     *)
C18_RejectedStep ==
    /\ UploadArrives =>
          LET r == call'.req
              req == call'.arg
          IN  (UnsupportedType(req) \/ EmptyExtraction(req)
                  \/ MissingTitleOrText(req))
              => /\ reqs'[r].pc = "done"
                 /\ reqs'[r].resp.status = 400
                 /\ "error" \in DOMAIN reqs'[r].resp.body
                 /\ StoreUnchanged
                 /\ MirrorUnchanged
    /\ \A r \in ReqIds :
          (/\ reqs[r].pc # "done"
           /\ reqs'[r].pc = "done"
           /\ reqs'[r].resp.status = 400)
          => reqs[r].pc = "idle" /\ StoreUnchanged /\ MirrorUnchanged

C18_RejectedLeavesNoTrace == [][C18_RejectedStep]_vars

(* A request without a text has just been rejected, after an earlier       *)
(* request was stored and mirrored.                                        *)
C18_Witness ==
    /\ call.op = "POST /api/upload"
    /\ "arg" \in DOMAIN call
    /\ MissingTitleOrText(call.arg)
    /\ call.req = 2
    /\ reqs[2].pc = "done"
    /\ reqs[2].resp.status = 400
    /\ Len(docs) = 1
    /\ Len(mirrorDocs) = 1

----------------------------------------------------------------------------
(* C19: in every upload the embedding call completes before the store is   *)
(* first touched. The step that takes a request to its wait for the        *)
(* embedding provider leaves the document and chunk maps as they were, and *)
(* so does every step while it waits, unless it is the step of another     *)
(* request whose embeddings have arrived: the maps change only in the step *)
(* in which some request's embedding call resolves. If the provider fails, *)
(* for an upload or for a search, the request ends with the maps           *)
(* unchanged. A search that runs while an upload waits sees nothing of it. *)
C19_Step ==
    /\ \A r \in ReqIds :
          /\ (reqs[r].pc = "idle" /\ reqs'[r].pc = "embedding")
             => StoreUnchanged
          /\ (reqs[r].pc = "embedding" /\ reqs'[r].pc = "embedding")
             => \/ StoreUnchanged
                \/ \E other \in ReqIds \ {r} :
                      /\ reqs[other].pc = "embedding"
                      /\ reqs'[other].pc # "embedding"
          /\ (/\ reqs[r].pc = "embedding"
              /\ reqs'[r].pc = "done"
              /\ reqs'[r].resp.status = 500)
             => StoreUnchanged
    /\ ~StoreUnchanged
       => \E r \in ReqIds :
             /\ reqs[r].pc = "embedding"
             /\ reqs'[r].pc = "done"
             /\ reqs'[r].resp.status = 200
    /\ (call'.op = "GET /api/search" /\ call' # call) => StoreUnchanged

C19_SearchWhileWaiting ==
    (/\ call.op = "GET /api/search"
     /\ call.ret.status = 200
     /\ "query" \in DOMAIN call.ret.body)
    => \A i \in 1..Len(call.ret.body.results) :
          MapHas(chunks, call.ret.body.results[i].chunkId)

C19_EmbedBeforeStore == [][C19_Step]_vars /\ []C19_SearchWhileWaiting

(* A search is answered with a stored chunk while a second upload waits    *)
(* for its embeddings, after the store has been written once.              *)
C19_Witness ==
    /\ call.op = "GET /api/search"
    /\ call.ret.status = 200
    /\ "query" \in DOMAIN call.ret.body
    /\ Len(call.ret.body.results) > 0
    /\ reqs[1].pc = "done"
    /\ reqs[2].pc = "embedding"
    /\ Len(reqs[2].texts) = 2
    /\ Len(docs) = 1

----------------------------------------------------------------------------
(* C20: the mirror is written only after the in-memory upsert of the same  *)
(* document: what the mirror holds is in the store under the same id. A    *)
(* failure of the mirror (no connection, a failed document write, a failed *)
(* chunk write) is not propagated: whichever way the mirror steps go, the  *)
(* request is answered with the success response {id, chunks} of its       *)
(* document, the store is not changed by them and holds the document and   *)
(* its chunks; and what the store reports does not come from the mirror.   *)
InMirrorSteps(r) == reqs[r].pc \in {"getDb", "putDoc", "putChunks"}

C20_MirrorAfterStore ==
    /\ \A i \in 1..Len(mirrorDocs) : MapHas(docs, mirrorDocs[i].id)
    /\ \A i \in 1..Len(mirrorChunks) :
          /\ MapHas(chunks, mirrorChunks[i].id)
          /\ MapGet(chunks, mirrorChunks[i].id).docId = mirrorChunks[i].docId
    /\ \A r \in ReqIds :
          InMirrorSteps(r) =>
             /\ MapHas(docs, reqs[r].saved.id)
             /\ \A i \in 1..Len(reqs[r].saved.chunks) :
                   MapHas(chunks, reqs[r].saved.chunks[i].id)
    /\ call.op = "GET /api/files"
       => call.ret.body.items = ListDocumentsResult(docs)

C20_MirrorStep ==
    /\ ~MirrorUnchanged
       => \E r \in ReqIds :
             /\ reqs[r].pc \in {"putDoc", "putChunks"}
             /\ reqs'[r].pc # reqs[r].pc
             /\ StoreUnchanged
    /\ \A r \in ReqIds :
          (InMirrorSteps(r) /\ reqs'[r] # reqs[r])
          => /\ StoreUnchanged
             /\ \/ InMirrorSteps(r)'
                \/ /\ reqs'[r].pc = "done"
                   /\ reqs'[r].resp =
                         [status |-> 200,
                          body |-> [id |-> reqs[r].saved.id,
                                    chunks |-> Len(reqs[r].saved.chunks)]]

C20_MirrorBestEffort == []C20_MirrorAfterStore /\ [][C20_MirrorStep]_vars

(* The document was written to the mirror, the write of its two chunks     *)
(* failed with one of them written, and the request was answered with the  *)
(* success response: the store holds both chunks, the mirror one; the list *)
(* of documents still shows the document with its two chunks.              *)
C20_Witness ==
    /\ call.op = "GET /api/files"
    /\ reqs[1].pc = "done"
    /\ reqs[1].resp.status = 200
    /\ reqs[1].resp.body.chunks = 2
    /\ Len(chunks) = 2
    /\ Len(mirrorDocs) = 1
    /\ Len(mirrorChunks) = 1
    /\ Len(call.ret.body.items) = 1
    /\ call.ret.body.items[1].chunks = 2

----------------------------------------------------------------------------
(* C21: the mirror write is fire-and-forget for the caller. Once the       *)
(* in-memory upsert of an upload is done the request has its {id, chunks}  *)
(* response: it does not wait for the mirror's connection, for the write   *)
(* of the document or for the write of the chunks, none of which need ever *)
(* complete.                                                               *)
C21_Step ==
    \A r \in ReqIds :
        (/\ reqs[r].pc = "embedding"
         /\ reqs'[r].pc # "embedding"
         /\ ~(reqs'[r].pc = "done" /\ reqs'[r].resp.status = 500))
        => /\ reqs'[r].pc = "done"
           /\ reqs'[r].resp.status = 200

C21_ResponseNotWaiting ==
    [][C21_Step]_vars /\ [](\A r \in ReqIds : ~InMirrorSteps(r))

----------------------------------------------------------------------------
(* Notions the properties of POST /api/chat share.                         *)

(* The handler has built its prompt.                                       *)
HasPrompt == chat.pc \in {"creating", "streaming", "finished"}
HasStream == chat.pc \in {"streaming", "finished"}

StartsWith(s, pre) == Len(s) >= Len(pre) /\ SubSeq(s, 1, Len(pre)) = pre
EndsWith(s, suf) ==
    Len(s) >= Len(suf) /\ SubSeq(s, Len(s) - Len(suf) + 1, Len(s)) = suf

(* The pieces of s between the occurrences of sep.                         *)
RECURSIVE SplitOn(_, _, _, _, _)
SplitOn(s, sep, i, start, acc) ==
    IF i + Len(sep) - 1 > Len(s) THEN Append(acc, SubSeq(s, start, Len(s)))
    ELSE IF SubSeq(s, i, i + Len(sep) - 1) = sep
         THEN SplitOn(s, sep, i + Len(sep), i + Len(sep),
                      Append(acc, SubSeq(s, start, i - 1)))
         ELSE SplitOn(s, sep, i + 1, start, acc)

PiecesOf(s, sep) == SplitOn(s, sep, 1, 1, <<>>)

----------------------------------------------------------------------------
(* C22: in the chat prompt the source list is "No sources available." and  *)
(* the context block "No relevant context found." exactly when retrieval   *)
(* gave no results, which is when the store has nothing to find or there   *)
(* is no latest user message or an empty one; in that last case the        *)
(* handler goes to the generator without waiting for an embedding.         *)
(* Otherwise the source list has one line "[i] <title>..." and the context *)
(* block one entry "[#i] <chunk text>" per result, i from 1 to n in rank   *)
(* order, n <= 6, line i and entry i for the same result.                  *)
C22_PromptOfResults ==
    HasPrompt =>
        LET n == Len(chat.top)
            lines == PiecesOf(chat.sourcesList, "\n")
            entries == PiecesOf(chat.contextBlocks, "\n\n")
        IN  /\ n <= 6
            /\ n = Min(6, Cardinality(Live)) \/ chat.userQuery = ""
            /\ n = 0 <=> (Live = {} \/ chat.userQuery = "")
            /\ chat.sourcesList = "No sources available." <=> n = 0
            /\ chat.contextBlocks = "No relevant context found." <=> n = 0
            /\ n > 0 =>
                  /\ Len(lines) = n
                  /\ Len(entries) = n
                  /\ \A i \in 1..n :
                        /\ StartsWith(lines[i], "[" \o ToString(i) \o "] "
                                                    \o chat.top[i].title)
                        /\ entries[i] = "[#" \o ToString(i) \o "] "
                                             \o chat.top[i].text
                        /\ MapHas(chunks, chat.top[i].chunkId)
                        /\ MapGet(chunks, chat.top[i].chunkId).text
                              = chat.top[i].text
                        /\ MapGet(docs, chat.top[i].docId).title
                              = chat.top[i].title
                  /\ \A i \in 1..(n - 1) :
                        ~ScoreLess(chat.top[i].score, chat.top[i + 1].score)
            /\ EndsWith(chat.outgoing[1].content,
                        "\nSources:\n" \o chat.sourcesList)
            /\ LET prompt == chat.outgoing[Len(chat.outgoing)].content
                   from == Len("User question: \"\"\"") + Len(chat.userQuery)
               IN  /\ StartsWith(prompt, "User question: \"\"\"")
                   /\ StartsWith(SubSeq(prompt, from + 1, Len(prompt)),
                                 "\"\"\"\n\nContext snippets:\n"
                                    \o chat.contextBlocks
                                    \o "\n\nInstructions:")

C22_NoRetrievalStep ==
    (chat.pc = "idle" /\ chat'.pc # "idle")
    => /\ chat'.pc = "creating" <=> chat'.userQuery = ""
       /\ chat'.pc = "embedding" <=> chat'.userQuery # ""
       /\ chat'.userQuery = "" <=>
             \/ \A i \in 1..Len(chat'.messages) :
                   chat'.messages[i].role # "user"
             \/ \E i \in 1..Len(chat'.messages) :
                   /\ chat'.messages[i].role = "user"
                   /\ chat'.messages[i].content = ""
                   /\ \A j \in (i + 1)..Len(chat'.messages) :
                         chat'.messages[j].role # "user"

C22_PromptLists == []C22_PromptOfResults /\ [][C22_NoRetrievalStep]_vars

(* A prompt over a store of eight chunks: six results, five of them with   *)
(* the top score, one of them from the document with a type and a          *)
(* collection.                                                             *)
C22_Witness ==
    /\ HasPrompt
    /\ Len(chunks) = 8
    /\ Len(chat.top) = 6
    /\ \E i \in 1..6 :
          PiecesOf(chat.sourcesList, "\n")[i]
             = "[" \o ToString(i) \o "] Notes (pdf) -- kb"
    /\ PiecesOf(chat.contextBlocks, "\n\n")[6] = "[#6] beta"

----------------------------------------------------------------------------
(* C23: the messages sent to the generator are one system message, then    *)
(* every incoming message whose role is not "user", content unchanged and  *)
(* in the incoming order, then exactly one user message, the prompt built  *)
(* from the first 4000 characters of the last incoming user message. No    *)
(* incoming user message is passed on as it came: the one message of role  *)
(* "user" is the last one.                                                 *)
NonUserAt == {i \in 1..Len(chat.messages) : chat.messages[i].role # "user"}
UserAt == {i \in 1..Len(chat.messages) : chat.messages[i].role = "user"}

C23_OneUserTurn ==
    HasPrompt =>
        LET out == chat.outgoing
            last == out[Len(out)]
        IN  /\ Len(out) = 2 + Cardinality(NonUserAt)
            /\ out[1].role = "system"
            /\ \A i \in NonUserAt :
                  out[1 + Cardinality({j \in NonUserAt : j <= i})]
                     = chat.messages[i]
            /\ last.role = "user"
            /\ \A k \in 1..(Len(out) - 1) : out[k].role # "user"
            /\ \A i \in UserAt, k \in 1..Len(out) : out[k] # chat.messages[i]
            /\ Len(chat.userQuery) <= 4000
            /\ UserAt # {} =>
                  LET text == chat.messages[CHOOSE i \in UserAt :
                                               \A j \in UserAt : j <= i]
                                  .content
                  IN  /\ StartsWith(text, chat.userQuery)
                      /\ Len(chat.userQuery) = Min(4000, Len(text))
            /\ UserAt = {} => chat.userQuery = ""
            /\ StartsWith(last.content,
                          "User question: \"\"\"" \o chat.userQuery
                             \o "\"\"\"\n")

(* A history of two user turns around an assistant turn: the assistant     *)
(* turn is passed on between the system message and the prompt of the      *)
(* second user turn.                                                       *)
C23_Witness ==
    /\ HasPrompt
    /\ Cardinality(UserAt) = 2
    /\ Len(chat.outgoing) = 3
    /\ chat.outgoing[2] = [role |-> "assistant", content |-> "answer"]
    /\ chat.userQuery = "what"

----------------------------------------------------------------------------
(* C24: the response stream delivers the generator's non-empty deltas to   *)
(* the client in the order they were produced, each once. If the generator *)
(* fails after j deltas were delivered, the client gets those j deltas and *)
(* then the marker "[Stream error]" once, as the last item. When the       *)
(* generator has ended or failed, the stream is eventually closed, unless  *)
(* the client cancels.                                                     *)
PartPending ==
    chat.pending # None /\ chat.pending[1].kind = "part"

(* The deltas the loop has been through: all that were produced, but the   *)
(* one it has not taken yet.                                               *)
Handled ==
    IF PartPending THEN SubSeq(chat.produced, 1, Len(chat.produced) - 1)
    ELSE chat.produced

NonEmptyOf(deltas) == SelectSeq(deltas, LAMBDA d : d # "")

C24_Delivered ==
    (HasStream /\ ~chat.cancelled) =>
        /\ \/ chat.delivered = NonEmptyOf(Handled)
           \/ /\ chat.pc = "finished"
              /\ chat.delivered
                    = NonEmptyOf(Handled) \o <<"\n[Stream error]\n">>
        /\ chat.closed <=> chat.pc = "finished"

C24_Step ==
    (HasStream /\ ~chat.cancelled /\ ~chat'.cancelled
        /\ chat.pending # None /\ chat'.pending = None)
    => /\ chat.pending[1].kind = "error"
          => /\ chat'.delivered
                   = chat.delivered \o <<"\n[Stream error]\n">>
             /\ chat'.closed
       /\ chat.pending[1].kind = "end"
          => /\ chat'.delivered = chat.delivered
             /\ chat'.closed
       /\ chat.pending[1].kind = "part"
          => /\ chat'.delivered
                   = IF chat.pending[1].delta = "" THEN chat.delivered
                     ELSE Append(chat.delivered, chat.pending[1].delta)
             /\ ~chat'.closed

C24_Over ==
    /\ chat.pc = "streaming"
    /\ chat.pending # None
    /\ chat.pending[1].kind \in {"end", "error"}

C24_ClosedOrCancelled ==
    chat.pc = "finished" /\ (chat.closed \/ chat.cancelled)

C24_StreamDelivers ==
    /\ []C24_Delivered
    /\ [][C24_Step]_vars
    /\ C24_Over ~> C24_ClosedOrCancelled

(* The generator failed after three parts, one of them empty: the client   *)
(* has the two deltas and the marker, and the stream is closed.            *)
C24_Witness ==
    /\ chat.pc = "finished"
    /\ ~chat.cancelled
    /\ chat.produced = <<"Hel", "", "lo">>
    /\ chat.delivered = <<"Hel", "lo", "\n[Stream error]\n">>
    /\ chat.closed

----------------------------------------------------------------------------
(* C25: when the client has cancelled the response stream, the handler     *)
(* pulls nothing more from the generator (it makes no further call of      *)
(* next()) and the generator's connection is released by the time the      *)
(* handler takes its next step; nothing (no delta, no marker) is delivered *)
(* after the cancellation, and the cancellation leaves the store as it is. *)
C25_Step ==
    /\ (HasStream /\ chat.cancelled)
       => /\ chat'.pulls = chat.pulls
          /\ chat'.delivered = chat.delivered
          /\ chat'.pc # chat.pc => chat'.released
    /\ (HasStream /\ ~chat.cancelled /\ chat'.cancelled) => StoreUnchanged

C25_CancelStopsPulling == [][C25_Step]_vars

----------------------------------------------------------------------------
(* C26: a document ingested without a collection is grouped under          *)
(* "uncategorized" whichever way it came in. None of the upload requests   *)
(* carries a collection, so every stored document is listed by             *)
(* listDocuments with collection "uncategorized", stats().byCollection has *)
(* the one key "uncategorized", and getStats has the one card              *)
(* "uncategorized".                                                        *)
C26_DefaultLabel ==
    (/\ \A req \in UploadRequests : ~Truthy(req.collection)
     /\ Len(docs) > 0)
    => /\ \A i \in 1..Len(docs) :
             ListDocumentsResult(docs)[i].collection = "uncategorized"
       /\ DOMAIN StatsResult(docs, chunks).byCollection = {"uncategorized"}
       /\ LET res == GetStatsResult(docs, now)
          IN  /\ res.collections = <<"uncategorized">>
              /\ Len(res.datasets) = 1
              /\ res.datasets[1].name = "uncategorized"

----------------------------------------------------------------------------
(* C27: in every state reached from the empty store by upsertDocument and  *)
(* resetStore, every entry of the chunk map has a docId that is a key of   *)
(* the document map; the orphan filter of search therefore skips nothing:  *)
(* a search that k does not cut short returns one result per entry of the  *)
(* chunk map.                                                              *)
C27_NoOrphans ==
    /\ \A i \in 1..Len(chunks) : MapHas(docs, chunks[i].docId)
    /\ (IsSearch /\ call.arg.k >= Len(chunks))
       => Len(call.ret) = Len(chunks)

(* Two documents with chunks are stored and a search returns all of them.  *)
C27_Witness ==
    /\ IsSearch
    /\ Len(docs) = 2
    /\ Len(chunks) >= 2
    /\ \A id \in DocIds : \E i \in 1..Len(chunks) : chunks[i].docId = id
    /\ Len(call.ret) = Len(chunks)

----------------------------------------------------------------------------
(* The chunk-map entries attributed to document d, and those of them that  *)
(* d.chunks lists.                                                         *)
AttributedTo(cm, d) == {i \in 1..Len(cm) : cm[i].docId = d.id}
ListedIn(cm, d) == {i \in AttributedTo(cm, d) : cm[i].id \in Ids(d.chunks)}

(* No entry of the chunk map is left over from an earlier upsert.          *)
NoStale(ds, cm) ==
    \A i \in 1..Len(cm) :
        \E j \in 1..Len(ds) : i \in ListedIn(cm, ds[j])

ListedTotal(list) == SumTo([i \in 1..Len(list) |-> list[i].chunks], Len(list))

(* C28 as it is stated: whenever stats() and listDocuments() are read,     *)
(* totalChunks equals the sum of the listed chunk counts, and for every    *)
(* document the chunk-map entries with its id are exactly the chunks of    *)
(* its d.chunks.                                                           *)
C28_CountsAgree ==
    call.op = "stats" =>
        /\ call.ret.totalChunks = ListedTotal(call.list)
        /\ \A j \in 1..Len(docs) :
              /\ AttributedTo(chunks, docs[j]) = ListedIn(chunks, docs[j])
              /\ Cardinality(AttributedTo(chunks, docs[j])) =
                    Len(docs[j].chunks)

(* C28, amended: every chunk of d.chunks is in the chunk map under d's id  *)
(* with its text and embedding, so totalChunks is at least the sum of the  *)
(* listed counts; the two are equal exactly when the chunk map holds no    *)
(* entry left over from an earlier upsert of a document id, and an upsert  *)
(* keeps them equal when it is of a new id or passes every chunk id that   *)
(* the chunk map already holds for its id.                                 *)
C28_ListedAreStored ==
    /\ \A j \in 1..Len(docs) :
          \A a \in 1..Len(docs[j].chunks) :
              /\ MapHas(chunks, docs[j].chunks[a].id)
              /\ MapGet(chunks, docs[j].chunks[a].id) =
                    ChunkEntry(docs[j], docs[j].chunks[a])
    /\ call.op = "stats" =>
          /\ call.ret.totalChunks = Len(chunks)
          /\ call.ret.totalChunks >= ListedTotal(call.list)
          /\ (call.ret.totalChunks = ListedTotal(call.list))
                <=> NoStale(docs, chunks)

C28_Step ==
    (/\ UpsertStep
     /\ NoStale(docs, chunks)
     /\ \A i \in 1..Len(chunks) :
           chunks[i].docId = call'.arg.id
              => chunks[i].id \in Ids(call'.arg.chunks))
    => NoStale(docs', chunks')

C28_CountsAgreeUntilStale == []C28_ListedAreStored /\ [][C28_Step]_vars

(* stats() read after a document was stored again with fewer chunks: the   *)
(* chunk map holds more entries than the list reports.                     *)
C28_Witness ==
    /\ call.op = "stats"
    /\ call.ret.totalChunks > ListedTotal(call.list)
    /\ ~NoStale(docs, chunks)

----------------------------------------------------------------------------
(* The number of documents of ds in collection c.                          *)
CountIn(ds, c) == Cardinality({i \in 1..Len(ds) : CollectionOf(ds[i]) = c})

(* C29: what getStats() returns on a store with documents is consistent    *)
(* with itself: sourcesCount is the sum of the per-collection document     *)
(* counts (the counts the cards' versions are printed from); collections   *)
(* and datasets name the same collections, each once; the cards come in    *)
(* descending order of their collection's latest createdAt; and the        *)
(* ingestion status is the status of the first card, no card being fresher *)
(* than it.                                                                *)
C29_Consistent ==
    (IsGetStats /\ Len(docs) > 0) =>
        LET res == call.ret
            n == Len(res.datasets)
            names == {res.datasets[i].name : i \in 1..n}
            counts == [c \in names |-> CountIn(docs, c)]
        IN  /\ res.sourcesCount = SumValues(counts, names)
            /\ \A i \in 1..n :
                  res.datasets[i].ver = VerOf(counts[res.datasets[i].name])
            /\ Len(res.collections) = n
            /\ {res.collections[i] : i \in 1..Len(res.collections)} = names
            /\ Cardinality(names) = n
            /\ \A i \in 1..(n - 1) :
                  Greatest(CreatedIn(docs, res.datasets[i].name))
                     >= Greatest(CreatedIn(docs, res.datasets[i + 1].name))
            /\ res.ingestion.status = res.datasets[1].status
            /\ \A i \in 1..n :
                  StatusRank(res.datasets[i].status)
                     >= StatusRank(res.ingestion.status)

(* getStats() when the collection stored first is the older one: its card  *)
(* comes second and is staler than the ingestion status.                   *)
C29_Witness ==
    /\ IsGetStats
    /\ Len(docs) = 2
    /\ Len(call.ret.datasets) = 2
    /\ call.ret.datasets[2].name = CollectionOf(docs[1])
    /\ call.ret.collections[1] = CollectionOf(docs[1])
    /\ call.ret.ingestion.status = call.ret.datasets[1].status
    /\ StatusRank(call.ret.datasets[2].status)
          > StatusRank(call.ret.ingestion.status)

----------------------------------------------------------------------------
(* The upload handler, with the mirror not configured, among the five read *)
(* operations of the store: search, listDocuments and getDocument through  *)
(* their routes, stats and getStats called directly. The uploads are those *)
(* that carry a title, the searches those that leave k out.                *)
FrameUploads == {req \in UploadRequests : req.title # None}
FrameSearches == {req \in SearchRequests : req.k.kind = "absent"}

NextFrame ==
    \/ \E r \in ReqIds, req \in FrameUploads, rnd \in Rands :
          UploadBegin(r, req, rnd)
    \/ \E r \in ReqIds :
          /\ reqs[r].pc = "embedding"
          /\ \E e \in [1..Len(reqs[r].texts) -> EmbeddingVectors] :
                UploadEmbedded(r, e)
    \/ \E r \in ReqIds : UploadEmbedFails(r)
    \/ \E req \in FrameSearches, e \in QueryVectors :
          SearchGET(req.q, req.k, e)
    \/ FilesGET
    \/ \E id \in {GenDocId(0, "k3x"), NoSuchId} : FilesIdGET(id)
    \/ Stats
    \/ GetStats
    \/ Tick

SpecFrame == InitApp /\ [][NextFrame]_vars

ReadOps == {"GET /api/search", "GET /api/files", "GET /api/files/[id]",
            "stats", "getStats"}

(* Request r stores its document in this step.                             *)
Ingests(r) ==
    /\ reqs[r].pc = "embedding"
    /\ reqs'[r].pc = "done"
    /\ reqs'[r].resp.status = 200

(* C30: an ingest through the upload route changes only the document it    *)
(* stores. Every document with another id keeps its record (createdAt      *)
(* included) and its place, every chunk-map entry of another document      *)
(* stays as it was, and what the ingest adds is the document and its       *)
(* chunks, with ids <docId>_chunk_<i> for i = 0..n-1 in the order of the   *)
(* chunker's output. The chunk ids of two documents never meet. search,    *)
(* listDocuments, getDocument, stats and getStats leave the store as it    *)
(* is.                                                                     *)
C30_IngestStep ==
    \A r \in ReqIds :
        Ingests(r) =>
            LET id == reqs[r].id
                n == Len(reqs[r].texts)
            IN  /\ \A i \in 1..Len(docs) :
                      docs[i].id # id => docs'[i] = docs[i]
                /\ \A i \in 1..Len(chunks) :
                      chunks[i].docId # id => chunks'[i] = chunks[i]
                /\ Ids(docs') = Ids(docs) \cup {id}
                /\ Ids(chunks') =
                      Ids(chunks) \cup {ChunkId(id, i) : i \in 0..(n - 1)}
                /\ Len(MapGet(docs', id).chunks) = n
                /\ \A a \in 1..n :
                      /\ MapGet(docs', id).chunks[a].id = ChunkId(id, a - 1)
                      /\ MapGet(docs', id).chunks[a].text = reqs[r].texts[a]
                      /\ MapGet(chunks', ChunkId(id, a - 1)).docId = id
                      /\ MapGet(chunks', ChunkId(id, a - 1)).text =
                            reqs[r].texts[a]

C30_ReadStep ==
    /\ (call'.op \in ReadOps /\ call' # call) => StoreUnchanged
    /\ ~StoreUnchanged => \E r \in ReqIds : Ingests(r)

C30_ChunkIdsApart ==
    \A i, j \in 1..Len(docs) :
        i # j => Ids(docs[i].chunks) \cap Ids(docs[j].chunks) = {}

C30_IngestChangesOnlyItsDocument ==
    [][C30_IngestStep /\ C30_ReadStep]_vars /\ []C30_ChunkIdsApart

(* Two documents with chunks have been ingested, the second at a later     *)
(* time than the first, and getStats has been read since.                  *)
C30_Witness ==
    /\ IsGetStats
    /\ Len(docs) = 2
    /\ Len(docs[1].chunks) > 0
    /\ Len(docs[2].chunks) > 0
    /\ docs[1].createdAt < docs[2].createdAt
    /\ Len(chunks) = Len(docs[1].chunks) + Len(docs[2].chunks)
    /\ \A r \in ReqIds : reqs[r].pc = "done"

=============================================================================
